---- MODULE Spec2Model ----
(***************************************************************************)
(* Model of the stroke-history engine (sistema/dibujo_manager.py,          *)
(* class DibujoManager): the canvas raster, the undo/redo log with its     *)
(* cursor, the style parameters, and session persistence.                  *)
(*                                                                         *)
(* The canvas is a raster of resolution[0] x resolution[1] pixels.  A      *)
(* pixel holds one colour value (the three BGR channels are always written *)
(* together, so one value stands for the triple); 0 is the value of        *)
(* np.zeros, the blank canvas.  Log positions are 0-based in the code and  *)
(* 1-based in TLA+ sequences: record i of the code is historial_trazos[i+1]*)
(***************************************************************************)
EXTENDS Integers, Sequences, FiniteSets, TLC

VARIABLES
    dibujo,            \* self.dibujo: the canvas, [Pixeles -> colour]
    historial_trazos,  \* self.historial_trazos: the log of records
    historial_index,   \* self.historial_index: the cursor, -1 = nothing applied
    puntos_dibujo,     \* self.puntos_dibujo: in-progress point buffer
    dibujando,         \* self.dibujando: the stroke-open flag
    color_dibujo,      \* self.color_dibujo
    grosor_linea,      \* self.grosor_linea
    radio_borrador,    \* self.radio_borrador
    archivo_sesion,    \* the session file on disk (what guardar_sesion wrote)
    ultima,            \* the last call made and what it returned
    pasos,             \* history: how many calls were made (bounded exploration)
    rama,              \* history: what happened since the last stroke was opened
    lienzo_previo,     \* history: the canvas as it was before the last deshacer
    escenario,         \* history: progress of "N strokes committed, then undone"
    reloj,             \* time.time() / datetime.now(), in tenths of a second
    ultimo_autosave,   \* self.ultimo_autosave
    autosaves,         \* the autosave_* files of sesiones_dir, by their timestamp
    autoguardado,      \* history: what the last dibujar_punto's autosave did
    modo_actual,       \* SistemaInteractivo.modo_actual: "None", "dibujar", "borrar"
    ejecutando,        \* SistemaInteractivo.ejecutando
    pc,                \* where the main loop stands: "frame", "boton", "cerrado"
    pendiente,         \* boton_seleccionado of _procesar_gestos, "None" if none
    cuadro,            \* history: the last frame's hand and the stroke call it made
    accion,            \* history: the last button action and when it fired
    botones,           \* UIManager.botones: the button table, in insertion order
    consulta,          \* history: the last direct hit test and its result
    cola_mensajes,     \* VoiceEngine.cola_mensajes: the texts waiting to be spoken
    hablando,          \* VoiceEngine.hablando: the speaking flag
    iniciado,          \* VoiceEngine.iniciado
    motor_actual,      \* VoiceEngine.motor_actual: the started backend, or "None"
    config_motor,      \* VoiceEngine.config['motor']
    archivo_config,    \* the motor named by configuracion_voz.json on disk
    nativos,           \* the backends whose native engine / client object was created
    hilos,             \* the worker threads: where each stands in its loop
    sincrono,          \* the text an unfinished hablar_sincrono is speaking
    cambio,            \* the cambiar_motor call in progress
    hablado,           \* history: the texts in the order their synthesis began
    sacados,           \* history: the texts in the order workers popped them
    intentos,          \* history: per utterance, the backends its synthesis tried
    pedidos,           \* history: the accepted hablar / hablar_sincrono calls
    ultima_voz,        \* history: the last VoiceEngine call and its return
    prosodia,          \* VoiceEngine.config velocidad / tono / volumen, in thousandths
    ajustes,           \* history: the establecer_* calls of the last handler
    voces,             \* hablar_con_emocion: its saved config_original while it
                       \* runs, and per message the prosody set and the one used
    conectada,         \* ManoRoboticaManager.conectada
    cola_mano,         \* ManoRoboticaManager.cola_mensajes: the serial queue
    hilo_envio,        \* the sender worker: where it stands, the message it holds
    puerto,            \* the serial port: "abierto" or "cerrado"
    escritos,          \* history: the messages written to the port, in order
    enviados,          \* history: the messages enviar_mensaje accepted, in order
    fin,               \* history: why the main loop of ejecutar ended
    cierre,            \* history: the teardown steps SistemaInteractivo.cerrar ran
    reconocimiento     \* _reconocer_texto_hilo: where it stands, what OCR returned, its text

estado == <<dibujo, historial_trazos, historial_index, puntos_dibujo, dibujando,
            color_dibujo, grosor_linea, radio_borrador, archivo_sesion, ultima>>

vars_autosave == <<reloj, ultimo_autosave, autosaves, autoguardado>>

vars_gestos == <<modo_actual, ejecutando, pc, pendiente, cuadro, accion,
                 botones, consulta>>

vars_voz == <<cola_mensajes, hablando, iniciado, motor_actual, config_motor,
              archivo_config, nativos, hilos, sincrono, cambio, hablado, sacados, intentos,
              pedidos, ultima_voz>>

vars_prosodia == <<prosodia, ajustes, voces>>

vars_serie == <<conectada, cola_mano, hilo_envio, puerto, escritos, enviados>>

vars_cierre == <<fin, cierre>>

vars_ocr == <<reconocimiento>>

vars == <<estado, pasos, rama, lienzo_previo, escenario, vars_autosave, vars_gestos,
          vars_voz, vars_prosodia, vars_serie, vars_cierre, vars_ocr>>

\* Bounds of the exploration.
MaxTrazos == 2
MaxPuntos == 2
MaxPasos == 5
MaxReloj == 2000
MaxDecimas == 11
MaxBotones == 3
MaxMensajes == 3
MaxHilos == 2
MaxVoz == 2
MaxSerie == 3

\* config kinect.resolution, scaled down: a canvas of 3 x 1 pixels.
resolution == <<3, 1>>

Pixeles == (0 .. resolution[1] - 1) \X (0 .. resolution[2] - 1)

\* Coordinates a caller may pass: every pixel, and one step outside on each side.
Coordenadas == (-1 .. resolution[1]) \X (-1 .. resolution[2])

\* np.zeros(...): the blank canvas.
Blanco == [p \in Pixeles |-> 0]

\* config ui.colores.borrador, default [0, 0, 0].
color_borrador == 0

\* Values the style setters are called with (0 is rejected by the two guarded ones).
Colores == {1, 2}
Grosores == {0, 1, 3}
Radios == {0, 1, 2}

Min(a, b) == IF a < b THEN a ELSE b

\* What ultima records of a call: its name, what it handed back (Python's True /
\* False / None, the path string of guardar_sesion, or an exception leaving the
\* method) and, for cargar_sesion, the path it was given.
Retorno(op, ret) == [op |-> op, ret |-> ret, arg |-> ""]

(***************************************************************************)
(* Rasterisation.  cv2.line paints the pixels within grosor/2 of the       *)
(* segment, cv2.circle with thickness -1 the pixels within radio of the    *)
(* centre; both are computed with integer arithmetic on squared distances. *)
(***************************************************************************)
Dot(u, v) == u[1] * v[1] + u[2] * v[2]
Resta(u, v) == <<u[1] - v[1], u[2] - v[2]>>

\* Whether pixel p lies within grosor/2 of the segment p1-p2.
CubreLinea(p, p1, p2, grosor) ==
    LET d  == Resta(p2, p1)
        v  == Resta(p, p1)
        w  == Resta(p, p2)
        L2 == Dot(d, d)
        t  == Dot(v, d)
        cr == v[1] * d[2] - v[2] * d[1]
    IN  IF L2 = 0 \/ t <= 0 THEN 4 * Dot(v, v) <= grosor * grosor
        ELSE IF t >= L2 THEN 4 * Dot(w, w) <= grosor * grosor
        ELSE 4 * cr * cr <= grosor * grosor * L2

\* cv2.line(img, p1, p2, color, grosor)
Linea(img, p1, p2, color, grosor) ==
    [p \in Pixeles |-> IF CubreLinea(p, p1, p2, grosor) THEN color ELSE img[p]]

\* cv2.circle(img, c, radio, color, -1)
Circulo(img, c, radio, color) ==
    [p \in Pixeles |->
        IF Dot(Resta(p, c), Resta(p, c)) <= radio * radio THEN color ELSE img[p]]

\* The segments j = 1 .. len(puntos)-1 of a draw record, in order.
RECURSIVE LineasDesde(_, _, _, _, _)
LineasDesde(img, puntos, j, color, grosor) ==
    IF j >= Len(puntos) THEN img
    ELSE LineasDesde(Linea(img, puntos[j], puntos[j + 1], color, grosor),
                     puntos, j + 1, color, grosor)

\* The circles of an erase record, in order.
RECURSIVE CirculosDesde(_, _, _, _)
CirculosDesde(img, puntos, j, radio) ==
    IF j > Len(puntos) THEN img
    ELSE CirculosDesde(Circulo(img, puntos[j], radio, color_borrador),
                       puntos, j + 1, radio)

\* The body of the loop of _reconstruir_dibujo for one record that has points.
AplicarTrazo(img, trazo) ==
    IF trazo.tipo = "trazo" /\ Len(trazo.puntos) > 1
        THEN LineasDesde(img, trazo.puntos, 1, trazo.color, trazo.grosor)
    ELSE IF trazo.tipo = "borrado"
        THEN CirculosDesde(img, trazo.puntos, 1, trazo.radio)
    ELSE img

\* Whether trazo['puntos'] exists (the loaded-image marker has no such key).
TienePuntos(trazo) == trazo.tipo \in {"trazo", "borrado"}

\* The loop of _reconstruir_dibujo over code positions i .. n.  It stops with an
\* error where the code raises: historial_trazos[i] beyond the list (IndexError)
\* or trazo['puntos'] on a record without points (KeyError); the canvas then
\* keeps what was replayed before.
RECURSIVE Repetir(_, _, _, _)
Repetir(img, log, i, n) ==
    IF i > n THEN [img |-> img, error |-> FALSE]
    ELSE IF i + 1 > Len(log) THEN [img |-> img, error |-> TRUE]
    ELSE IF ~TienePuntos(log[i + 1]) THEN [img |-> img, error |-> TRUE]
    ELSE Repetir(AplicarTrazo(img, log[i + 1]), log, i + 1, n)

\* _reconstruir_dibujo with cursor idx: replay records 0 .. idx onto a blank canvas.
ReconstruirDibujo(log, idx) == Repetir(Blanco, log, 0, idx)

\* Python's lista[:n] for n >= 0.
Hasta(lista, n) == SubSeq(lista, 1, Min(n, Len(lista)))

\* A faulty variant of the bounds test without the upper limits.
EnLienzoSinMaximo(x, y) == 0 <= x /\ 0 <= y

\* if 0 <= x < self.resolution[0] and 0 <= y < self.resolution[1]
EnLienzo(x, y) == 0 <= x /\ x < resolution[1] /\ 0 <= y /\ y < resolution[2]

(***************************************************************************)
(* The button table of UIManager and its hit test.                         *)
(***************************************************************************)
\* ui.dimensiones_boton, scaled down to the canvas: a button spans
\* [bx, bx + ancho] x [by, by + alto].
dimensiones_boton == [ancho |-> 1, alto |-> 0]

Boton(texto, bx, by) == [texto |-> texto, pos |-> <<bx, by>>]

\* ui.botones as configured for the dispatcher: five buttons with an action and
\* one without, some sharing a column of the frame.
BotonesConfigurados ==
    << Boton("Dibujar", 0, 1), Boton("Borrar", 2, 1), Boton("Limpiar", 2, 0),
       Boton("Guardar", 0, -1), Boton("Configuracion", 1, -1), Boton("Salir", 2, -1) >>

\* bx <= punto_x <= bx + ancho and by <= punto_y <= by + alto
Contiene(b, x, y) ==
    /\ b.pos[1] <= x /\ x <= b.pos[1] + dimensiones_boton.ancho
    /\ b.pos[2] <= y /\ y <= b.pos[2] + dimensiones_boton.alto

\* A faulty variant of the loop in which the last hit returns.
RECURSIVE UltimoBoton(_, _, _, _)
UltimoBoton(tabla, i, x, y) ==
    IF i > Len(tabla) THEN "None"
    ELSE LET resto == UltimoBoton(tabla, i + 1, x, y)
         IN  IF resto # "None" THEN resto
             ELSE IF Contiene(tabla[i], x, y) THEN tabla[i].texto
             ELSE "None"

\* The loop of verificar_punto_en_boton from entry i on: the first hit returns.
RECURSIVE PrimerBoton(_, _, _, _)
PrimerBoton(tabla, i, x, y) ==
    IF i > Len(tabla) THEN "None"
    ELSE IF Contiene(tabla[i], x, y) THEN tabla[i].texto
    ELSE PrimerBoton(tabla, i + 1, x, y)

verificar_punto_en_boton(x, y) == PrimerBoton(botones, 1, x, y)

\* The five-element lists detectar_dedos_levantados returns (thumb first).
Dedos == [1 .. 5 -> BOOLEAN]

Puno == [i \in 1 .. 5 |-> FALSE]

\* SistemaInteractivo.__init__ and UIManager.__init__, and no frame seen yet.
InitGestos ==
    /\ modo_actual = "None"
    /\ ejecutando = TRUE
    /\ pc = "frame"
    /\ pendiente = "None"
    /\ cuadro = [mano |-> FALSE, dedos |-> Puno, llamada |-> "ninguna"]
    /\ accion = [boton |-> "None", hora |-> 0]
    /\ botones = BotonesConfigurados
    /\ consulta = [hecha |-> FALSE, x |-> 0, y |-> 0, ret |-> "None"]

(***************************************************************************)
(* VoiceEngine (sistema/voice_engine.py): the message queue, the speaking  *)
(* flag, the background worker threads and the backend switch.  A message  *)
(* is identified by its text; the k-th message handed to the engine is     *)
(* Textos[k].  Thread 0 is the caller's thread (hablar_sincrono speaks on  *)
(* it); threads 1 .. MaxHilos are the workers _iniciar_* starts.           *)
(***************************************************************************)
Textos == <<"A", "B", "C", "D", "E">>

\* class MotorVoz
MotorVoz == {"pyttsx3", "google_tts", "azure_tts", "offline_tts"}

\* The names cambiar_motor is called with here: two backends and a bad name.
Solicitados == {"pyttsx3", "google_tts", "otro"}

Hilos == 1 .. MaxHilos

\* The threads inside a _hablar_* call: the workers at their speak call and
\* the caller of an unfinished hablar_sincrono.
EnSintesis ==
    {h \in Hilos : hilos[h].pc = "hablar"} \cup
    (IF sincrono # "None" THEN {0} ELSE {})

\* The worker threads that were started and have not left their loop.
Vivos == {h \in Hilos : hilos[h].pc \notin {"no", "muerto"}}

Libres == {h \in Hilos : hilos[h].pc = "no"}

\* threading.Thread(target=self._procesar_cola_habla).start()
ConHiloNuevo ==
    LET h == CHOOSE l \in Libres : \A m \in Libres : l <= m
    IN  [hilos EXCEPT ![h] = [pc |-> "bucle", texto |-> "None"]]

\* ManoRoboticaManager after a successful conectar(): the port is open and
\* the sender worker waits at its loop; nothing was sent.
InitSerie ==
    /\ conectada = TRUE
    /\ cola_mano = <<>>
    /\ hilo_envio = [pc |-> "bucle", mensaje |-> 0]
    /\ puerto = "abierto"
    /\ escritos = <<>>
    /\ enviados = <<>>

\* No recognition thread was started.
InitOCR == reconocimiento = [pc |-> "no", resultados |-> <<>>, texto |-> <<>>]

\* The main loop runs and SistemaInteractivo.cerrar was not called.
InitCierre ==
    /\ fin = "None"
    /\ cierre = <<>>

\* DEFAULT_CONFIG: velocidad 1.0, volumen 0.9, tono 0.0.
InitProsodia ==
    /\ prosodia = [velocidad |-> 1000, tono |-> 0, volumen |-> 900]
    /\ ajustes = <<>>
    /\ voces = [config_original |-> <<>>, mensajes |-> <<>>]

\* VoiceEngine.__init__ with the configured backend started by iniciar(): the
\* file names the backend _cargar_config read, one worker waits at its loop.
InitVoz ==
    /\ cola_mensajes = <<>>
    /\ hablando = FALSE
    /\ iniciado = TRUE
    /\ motor_actual = "pyttsx3"
    /\ config_motor = "pyttsx3"
    /\ archivo_config = "pyttsx3"
    /\ nativos = {"pyttsx3"}
    /\ hilos = [h \in Hilos |-> IF h = 1 THEN [pc |-> "bucle", texto |-> "None"]
                                         ELSE [pc |-> "no", texto |-> "None"]]
    /\ sincrono = "None"
    /\ cambio = [fase |-> "no", nuevo |-> "None", previo |-> "None", corria |-> FALSE]
    /\ hablado = <<>>
    /\ sacados = <<>>
    /\ intentos = <<>>
    /\ pedidos = <<>>
    /\ ultima_voz = [op |-> "init", ret |-> "None", arranque |-> "None"]
    /\ InitProsodia
    /\ InitSerie
    /\ InitCierre
    /\ InitOCR

RetornoVoz(op, ret) == [op |-> op, ret |-> ret, arranque |-> "None"]

\* if prioridad: cola.insert(0, texto)  else: cola.append(texto), without the
\* branch: every message goes to the back.
EncolarAlFinal(cola, texto, prioridad) == Append(cola, texto)

\* if prioridad: cola.insert(0, texto)  else: cola.append(texto)
Encolar(cola, texto, prioridad) ==
    IF prioridad THEN <<texto>> \o cola ELSE Append(cola, texto)

EncolarMensaje(prioridad) ==
    /\ Len(pedidos) < MaxMensajes
    /\ IF ~iniciado
       THEN /\ ultima_voz' = RetornoVoz("hablar", "False")
            /\ UNCHANGED <<cola_mensajes, pedidos>>
       ELSE /\ cola_mensajes' =
                Encolar(cola_mensajes, Textos[Len(pedidos) + 1], prioridad)
            /\ pedidos' = Append(pedidos, [texto |-> Textos[Len(pedidos) + 1],
                                           prioridad |-> prioridad,
                                           via |-> "cola",
                                           antes |-> cola_mensajes])
            /\ ultima_voz' = RetornoVoz("hablar", "True")

hablar(prioridad) ==
    /\ EncolarMensaje(prioridad)
    /\ UNCHANGED <<hablando, iniciado, motor_actual, config_motor, archivo_config, nativos,
                   hilos, sincrono, cambio, hablado, sacados, intentos>>

\* The cloud backends, and the one a failed synthesis falls back to.
Nube == {"google_tts", "azure_tts"}

Secundario(motor) == IF motor = "azure_tts" THEN "google_tts" ELSE "azure_tts"

Paso(motor, resultado) == [motor |-> motor, resultado |-> resultado]

\* _hablar_google_tts: nothing without the client; else the API call and the
\* playback, which the environment lets fail for the backends in fallos.
PasosGoogle(fallos) ==
    IF "google_tts" \notin nativos THEN <<Paso("google_tts", "sin_cliente")>>
    ELSE IF "google_tts" \in fallos THEN <<Paso("google_tts", "fallo")>>
    ELSE <<Paso("google_tts", "dicho")>>

\* _hablar_azure_tts: as above, and a failed synthesis calls _hablar_google_tts.
PasosAzure(fallos) ==
    IF "azure_tts" \notin nativos THEN <<Paso("azure_tts", "sin_cliente")>>
    ELSE IF "azure_tts" \in fallos
         THEN <<Paso("azure_tts", "fallo")>> \o PasosGoogle(fallos)
    ELSE <<Paso("azure_tts", "dicho")>>

PasosPyttsx3(fallos) ==
    <<Paso("pyttsx3", IF "pyttsx3" \in fallos THEN "fallo" ELSE "dicho")>>

\* _hablar_offline_tts: the pyttsx3 engine if one was created, else nothing.
PasosOffline(fallos) ==
    IF "pyttsx3" \in nativos THEN PasosPyttsx3(fallos)
    ELSE <<Paso("offline_tts", "sin_cliente")>>

\* The dispatch on motor_actual of _procesar_cola_habla and hablar_sincrono.
Sintesis(texto, fallos) ==
    [texto |-> texto, motor |-> motor_actual, fallos |-> fallos,
     pasos |-> IF motor_actual = "pyttsx3" THEN PasosPyttsx3(fallos)
               ELSE IF motor_actual = "google_tts" THEN PasosGoogle(fallos)
               ELSE IF motor_actual = "azure_tts" THEN PasosAzure(fallos)
               ELSE IF motor_actual = "offline_tts" THEN PasosOffline(fallos)
               ELSE <<>>]

\* hablar_sincrono up to its _hablar_* call: the flag is set without being read.
hablar_sincrono ==
    /\ sincrono = "None"
    /\ Len(pedidos) < MaxMensajes
    /\ IF ~iniciado
       THEN /\ ultima_voz' = RetornoVoz("hablar_sincrono", "False")
            /\ UNCHANGED <<hablando, sincrono, hablado, intentos, pedidos>>
       ELSE /\ hablando' = TRUE
            /\ sincrono' = Textos[Len(pedidos) + 1]
            /\ hablado' = Append(hablado, Textos[Len(pedidos) + 1])
            /\ intentos' = Append(intentos, Sintesis(Textos[Len(pedidos) + 1], {}))
            /\ pedidos' = Append(pedidos, [texto |-> Textos[Len(pedidos) + 1],
                                           prioridad |-> FALSE,
                                           via |-> "sincrono",
                                           antes |-> cola_mensajes])
            /\ UNCHANGED ultima_voz
    /\ UNCHANGED <<cola_mensajes, iniciado, motor_actual, config_motor,
                   archivo_config, nativos, hilos, cambio, sacados>>

\* hablar_sincrono from the return of its _hablar_* call.
hablar_sincrono_fin ==
    /\ sincrono # "None"
    /\ sincrono' = "None"
    /\ hablando' = FALSE
    /\ ultima_voz' = RetornoVoz("hablar_sincrono", "True")
    /\ UNCHANGED <<cola_mensajes, iniciado, motor_actual, config_motor,
                   archivo_config, nativos, hilos, cambio, hablado, sacados, intentos, pedidos>>

detener ==
    /\ IF ~iniciado
       THEN /\ ultima_voz' = RetornoVoz("detener", "False")
            /\ UNCHANGED <<hablando, cola_mensajes>>
       ELSE /\ hablando' = FALSE
            /\ cola_mensajes' = <<>>
            /\ ultima_voz' = RetornoVoz("detener", "True")
    /\ UNCHANGED <<iniciado, motor_actual, config_motor, archivo_config, nativos, hilos,
                   sincrono, cambio, hablado, sacados, intentos, pedidos>>

\* One step of a worker's loop.  The loop test, the queue test, the pop, the
\* flag write with the speak call, and the return of the speak call are
\* separate steps: other threads run between them.
_procesar_cola_habla(h) ==
    \/ /\ hilos[h].pc = "bucle"
       /\ hilos' = [hilos EXCEPT ![h].pc = IF iniciado THEN "mirar" ELSE "muerto"]
       /\ UNCHANGED <<cola_mensajes, hablando, hablado, sacados>>
    \/ /\ hilos[h].pc = "mirar"
       /\ hilos' = [hilos EXCEPT ![h].pc =
                        IF cola_mensajes # <<>> /\ ~hablando THEN "sacar" ELSE "bucle"]
       /\ UNCHANGED <<cola_mensajes, hablando, hablado, sacados>>
    \/ /\ hilos[h].pc = "sacar"
       /\ IF cola_mensajes = <<>>
          THEN /\ hablando' = FALSE
               /\ hilos' = [hilos EXCEPT ![h].pc = "bucle"]
               /\ UNCHANGED <<cola_mensajes, sacados>>
          ELSE /\ cola_mensajes' = Tail(cola_mensajes)
               /\ sacados' = Append(sacados, Head(cola_mensajes))
               /\ hilos' = [hilos EXCEPT ![h] = [pc |-> "marcar",
                                                 texto |-> Head(cola_mensajes)]]
               /\ UNCHANGED hablando
       /\ UNCHANGED hablado
    \/ /\ hilos[h].pc = "marcar"
       /\ hablando' = TRUE
       /\ hablado' = Append(hablado, hilos[h].texto)
       /\ hilos' = [hilos EXCEPT ![h].pc = "hablar"]
       /\ UNCHANGED <<cola_mensajes, sacados>>
    \/ /\ hilos[h].pc = "hablar"
       /\ hablando' = FALSE
       /\ hilos' = [hilos EXCEPT ![h] = [pc |-> "bucle", texto |-> "None"]]
       /\ UNCHANGED <<cola_mensajes, hablado, sacados>>

\* A worker's step that keeps the backend which handled the utterance last as
\* motor_actual: a fallback that persists.
TrabajarPersistente(h, fallos) ==
    /\ _procesar_cola_habla(h)
    /\ IF hilos[h].pc = "marcar"
       THEN /\ intentos' = Append(intentos, Sintesis(hilos[h].texto, fallos))
            /\ motor_actual' =
                   Sintesis(hilos[h].texto, fallos).pasos[
                       Len(Sintesis(hilos[h].texto, fallos).pasos)].motor
       ELSE /\ fallos = {}
            /\ UNCHANGED <<intentos, motor_actual>>
    /\ UNCHANGED <<iniciado, config_motor, archivo_config, nativos,
                   sincrono, cambio, pedidos, ultima_voz>>

\* A worker's step.  The speak call sends the text through the backend of
\* motor_actual; it writes neither motor_actual nor the configuration.
Trabajar(h, fallos) ==
    /\ _procesar_cola_habla(h)
    /\ IF hilos[h].pc = "marcar"
       THEN intentos' = Append(intentos, Sintesis(hilos[h].texto, fallos))
       ELSE fallos = {} /\ UNCHANGED intentos
    /\ UNCHANGED <<iniciado, motor_actual, config_motor, archivo_config, nativos,
                   sincrono, cambio, pedidos, ultima_voz>>

\* What the environment lets a backend start do: the backend starts ("ok"),
\* its module is missing and pyttsx3 is started in its place ("fallback"), or
\* nothing starts and iniciar returns False ("falla").
Arranques(motor) == IF motor \in {"pyttsx3", "offline_tts"}
                    THEN {"ok", "falla"}
                    ELSE {"ok", "fallback", "falla"}

Arrancado(motor, r) == IF r = "ok" THEN motor ELSE "pyttsx3"

\* The native objects after a start: pyttsx3.init(), TextToSpeechClient() and
\* SpeechConfig() create one; _iniciar_offline_tts loads nothing.
Creados(motor, r) ==
    IF r = "falla" \/ (r = "ok" /\ motor = "offline_tts")
    THEN nativos
    ELSE nativos \cup {Arrancado(motor, r)}

\* cambiar_motor up to self.iniciado = False: the name check, detener(), the
\* join that times out on a worker still in its loop.
cambiar_motor(nuevo_motor) ==
    /\ cambio.fase = "no"
    /\ IF nuevo_motor \notin MotorVoz
       THEN /\ ultima_voz' = RetornoVoz("cambiar_motor", "False")
            /\ UNCHANGED <<cola_mensajes, hablando, iniciado, cambio>>
       ELSE /\ Libres # {}
            /\ cambio' = [fase |-> "parado", nuevo |-> nuevo_motor,
                          previo |-> motor_actual, corria |-> iniciado]
            /\ IF iniciado
               THEN /\ hablando' = FALSE
                    /\ cola_mensajes' = <<>>
                    /\ iniciado' = FALSE
               ELSE UNCHANGED <<cola_mensajes, hablando, iniciado>>
            /\ ultima_voz' = RetornoVoz("cambiar_motor", "None")
    /\ UNCHANGED <<motor_actual, config_motor, archivo_config, nativos, hilos, sincrono,
                   hablado, sacados, intentos, pedidos>>

\* cambiar_motor from self.config['motor'] = nuevo_motor to its return.
\* guardado: _guardar_config wrote the file; r: what iniciar() did for the new
\* backend; r2: what the second iniciar() did for the previous one.
cambiar_motor_arranque(guardado, r, r2) ==
    /\ cambio.fase = "parado"
    /\ r \in Arranques(cambio.nuevo)
    /\ archivo_config' = IF guardado THEN cambio.nuevo ELSE archivo_config
    /\ IF r # "falla"
       THEN /\ r2 = "falla"
            /\ config_motor' = cambio.nuevo
            /\ motor_actual' = Arrancado(cambio.nuevo, r)
            /\ nativos' = Creados(cambio.nuevo, r)
            /\ iniciado' = TRUE
            /\ hilos' = ConHiloNuevo
       ELSE IF motor_actual # "None"
            THEN /\ r2 \in Arranques(motor_actual)
                 /\ config_motor' = motor_actual
                 /\ IF r2 # "falla"
                    THEN /\ motor_actual' = Arrancado(motor_actual, r2)
                         /\ nativos' = Creados(motor_actual, r2)
                         /\ iniciado' = TRUE
                         /\ hilos' = ConHiloNuevo
                    ELSE UNCHANGED <<motor_actual, nativos, iniciado, hilos>>
            ELSE /\ r2 = "falla"
                 /\ config_motor' = cambio.nuevo
                 /\ UNCHANGED <<motor_actual, nativos, iniciado, hilos>>
    /\ ultima_voz' = [op |-> "cambiar_motor",
                      ret |-> IF r # "falla" THEN "True" ELSE "False",
                      arranque |-> r]
    /\ cambio' = [cambio EXCEPT !.fase = "no"]
    /\ UNCHANGED <<cola_mensajes, hablando, sincrono, hablado, sacados, intentos, pedidos>>

\* iniciar() called on its own: it starts the backend config['motor'] names,
\* whether or not one is started already.
iniciar(r) ==
    /\ cambio.fase = "no"
    /\ Libres # {}
    /\ r \in Arranques(config_motor)
    /\ IF r = "falla"
       THEN UNCHANGED <<motor_actual, nativos, iniciado, hilos>>
       ELSE /\ motor_actual' = Arrancado(config_motor, r)
            /\ nativos' = Creados(config_motor, r)
            /\ iniciado' = TRUE
            /\ hilos' = ConHiloNuevo
    /\ ultima_voz' = [op |-> "iniciar",
                      ret |-> IF r # "falla" THEN "True" ELSE "False",
                      arranque |-> r]
    /\ UNCHANGED <<cola_mensajes, hablando, config_motor, archivo_config, sincrono,
                   cambio, hablado, sacados, intentos, pedidos>>

\* VoiceEngine.cerrar: the queue is cleared, the configuration is saved
\* (guardado: the write succeeded), iniciado is cleared; the join that follows
\* waits at most 2 s and changes nothing.
cerrar_voz(guardado) ==
    /\ IF iniciado
       THEN /\ cola_mensajes' = <<>>
            /\ hablando' = FALSE
            /\ archivo_config' = IF guardado THEN config_motor ELSE archivo_config
            /\ iniciado' = FALSE
       ELSE /\ guardado
            /\ UNCHANGED <<cola_mensajes, hablando, archivo_config, iniciado>>
    /\ ultima_voz' = RetornoVoz("cerrar", "None")
    /\ UNCHANGED <<motor_actual, config_motor, nativos, hilos, sincrono, cambio,
                   hablado, sacados, intentos, pedidos>>

(***************************************************************************)
(* Prosody: establecer_velocidad / establecer_volumen / establecer_tono    *)
(* and GestorVozEmotiva.hablar_con_emocion (sistema/voz_emotiva.py).       *)
(* Values are in thousandths: velocidad 1.0 is 1000, tono -10.0 is -10000. *)
(***************************************************************************)
\* if 0.5 <= velocidad <= 2.0, without the lower limit.
AceptaVelocidadSinMinimo(valor) == valor <= 2000

\* if 0.5 <= velocidad <= 2.0
AceptaVelocidad(valor) == 500 <= valor /\ valor <= 2000

\* if 0.0 <= volumen <= 1.0
AceptaVolumen(valor) == 0 <= valor /\ valor <= 1000

\* if -10.0 <= tono <= 10.0
AceptaTono(valor) == -10000 <= valor /\ valor <= 10000

Acepta(campo, valor) ==
    IF campo = "velocidad" THEN AceptaVelocidad(valor)
    ELSE IF campo = "volumen" THEN AceptaVolumen(valor)
    ELSE AceptaTono(valor)

\* One establecer_<campo>(valor) call on the configuration cfg: what it
\* returned and the configuration it left.  error: engine.setProperty raised,
\* which only the pyttsx3 branch of velocidad and volumen can do, after the
\* configuration was written.
Ajuste(cfg, campo, valor, error) ==
    LET falla == error /\ motor_actual = "pyttsx3" /\ campo # "tono"
    IN  [op |-> campo, valor |-> valor, antes |-> cfg,
         despues |-> IF iniciado /\ Acepta(campo, valor)
                     THEN [cfg EXCEPT ![campo] = valor] ELSE cfg,
         ret |-> IF iniciado /\ Acepta(campo, valor) /\ ~falla
                 THEN "True" ELSE "False"]

\* The _guardar_config of the calls that returned True (guardado: it wrote).
ConfigGuardada(llamadas, guardado) ==
    IF guardado /\ \E i \in 1 .. Len(llamadas) : llamadas[i].ret = "True"
    THEN config_motor ELSE archivo_config

establecer(campo, valor, error, guardado) ==
    /\ ajustes' = <<Ajuste(prosodia, campo, valor, error)>>
    /\ prosodia' = ajustes'[1].despues
    /\ archivo_config' = ConfigGuardada(ajustes', guardado)
    /\ ultima_voz' = RetornoVoz(campo, ajustes'[1].ret)
    /\ UNCHANGED <<cola_mensajes, hablando, iniciado, motor_actual, config_motor,
                   nativos, hilos, sincrono, cambio, hablado, sacados, intentos,
                   pedidos, voces>>

establecer_velocidad(velocidad, error, guardado) ==
    establecer("velocidad", velocidad, error, guardado)

establecer_volumen(volumen, error, guardado) ==
    establecer("volumen", volumen, error, guardado)

establecer_tono(tono, guardado) == establecer("tono", tono, FALSE, guardado)

\* class Emocion
Emocion == {"neutral", "alegre", "emocionado", "tranquilo", "preocupado",
            "sorprendido", "orgulloso", "alentador"}

\* CONFIGURACION_EMOCIONES: floats for google_tts (here in thousandths),
\* integers for pyttsx3, nothing for the other backends.
CONFIGURACION_EMOCIONES ==
    [google_tts |->
        [neutral     |-> [pitch |-> 0,     speed |-> 1000],
         alegre      |-> [pitch |-> 2000,  speed |-> 1100],
         emocionado  |-> [pitch |-> 3000,  speed |-> 1200],
         tranquilo   |-> [pitch |-> -1000, speed |-> 900],
         preocupado  |-> [pitch |-> -2000, speed |-> 950],
         sorprendido |-> [pitch |-> 4000,  speed |-> 1150],
         orgulloso   |-> [pitch |-> 1000,  speed |-> 950],
         alentador   |-> [pitch |-> 1500,  speed |-> 1050]],
     pyttsx3 |->
        [neutral     |-> [pitch |-> 50, speed |-> 150],
         alegre      |-> [pitch |-> 60, speed |-> 165],
         emocionado  |-> [pitch |-> 70, speed |-> 180],
         tranquilo   |-> [pitch |-> 40, speed |-> 135],
         preocupado  |-> [pitch |-> 35, speed |-> 140],
         sorprendido |-> [pitch |-> 75, speed |-> 170],
         orgulloso   |-> [pitch |-> 55, speed |-> 145],
         alentador   |-> [pitch |-> 55, speed |-> 155]]]

\* intensidad_emocion in halves: cambiar_intensidad_emocion keeps it in 0.0 .. 2.0.
Intensidades == {0, 2, 4}

\* factor = 1 + (intensidad - 1) * 0.5, in quarters.
Factor(intensidad) == 4 + (intensidad - 2)

\* valor * factor for a float, int(valor * factor) for an integer: the
\* pyttsx3 table holds integers, and an integer n is n * 1000 thousandths.
Ajustado(motor, valor, intensidad) ==
    IF motor = "pyttsx3"
    THEN ((valor * Factor(intensidad)) \div 4) * 1000
    ELSE (valor * Factor(intensidad)) \div 4

\* aplicar_emocion: the adjusted pitch and speed, for the backends of the table.
ConEmocion(motor) == motor \in {"google_tts", "pyttsx3"}

\* The message hablar_con_emocion has just queued, with the speed and pitch
\* in force when it was queued; usada is filled when its synthesis begins.
Emotivo(cfg) ==
    IF iniciado
    THEN <<[texto |-> Textos[Len(pedidos) + 1], pedida |-> cfg, usada |-> <<>>]>>
    ELSE <<>>

\* hablar_con_emocion up to its time.sleep(0.1): config_original is saved,
\* the emotion's speed and pitch are set and the text is queued.
hablar_con_emocion_try(emocion, intensidad, error, guardado) ==
    /\ motor_actual # "None"
    /\ voces.config_original = <<>>
    /\ LET tabla == CONFIGURACION_EMOCIONES[motor_actual][emocion]
           a1 == Ajuste(prosodia, "velocidad",
                        Ajustado(motor_actual, tabla.speed, intensidad), error)
           a2 == Ajuste(a1.despues, "tono",
                        Ajustado(motor_actual, tabla.pitch, intensidad), error)
           previas == IF ConEmocion(motor_actual) THEN <<a1, a2>> ELSE <<>>
           cfg == IF ConEmocion(motor_actual) THEN a2.despues ELSE prosodia
       IN  /\ ajustes' = previas
           /\ prosodia' = cfg
           /\ voces' = [config_original |-> <<prosodia>>,
                        mensajes |-> voces.mensajes \o Emotivo(cfg)]
    /\ archivo_config' = ConfigGuardada(ajustes', guardado)
    /\ EncolarMensaje(FALSE)
    /\ UNCHANGED <<hablando, iniciado, motor_actual, config_motor, nativos, hilos,
                   sincrono, cambio, hablado, sacados, intentos>>

\* The finally block of hablar_con_emocion, after the sleep: the speed and
\* pitch of config_original are set again.
hablar_con_emocion_finally(error, guardado) ==
    /\ voces.config_original # <<>>
    /\ LET original == voces.config_original[1]
           a3 == Ajuste(prosodia, "velocidad", original.velocidad, error)
           a4 == Ajuste(a3.despues, "tono", original.tono, error)
       IN  /\ ajustes' = ajustes \o <<a3, a4>>
           /\ prosodia' = a4.despues
    /\ voces' = [voces EXCEPT !.config_original = <<>>]
    /\ archivo_config' = ConfigGuardada(<<ajustes'[Len(ajustes') - 1],
                                          ajustes'[Len(ajustes')]>>, guardado)
    /\ UNCHANGED <<cola_mensajes, hablando, iniciado, motor_actual, config_motor,
                   nativos, hilos, sincrono, cambio, hablado, sacados, intentos,
                   pedidos, ultima_voz>>

\* The worker's step while hablar_con_emocion may be running: the synthesis
\* that begins reads the speed and pitch of the configuration at that moment
\* (self.config.get in _hablar_google_tts, the engine's properties in pyttsx3).
Sintetizar(h) ==
    /\ Trabajar(h, {})
    /\ voces' = IF hilos[h].pc = "marcar"
                THEN [voces EXCEPT !.mensajes =
                         [i \in DOMAIN voces.mensajes |->
                             IF voces.mensajes[i].texto = hilos[h].texto
                             THEN [voces.mensajes[i] EXCEPT !.usada = <<prosodia>>]
                             ELSE voces.mensajes[i]]]
                ELSE voces
    /\ UNCHANGED <<prosodia, ajustes>>

\* hablar_con_emocion with no worker step inside it: the emotion's speed and
\* pitch are set, the text is queued, and the speed and pitch read at the
\* start are set again.
hablar_con_emocion(emocion, intensidad, error, guardado) ==
    /\ motor_actual # "None"
    /\ LET tabla == CONFIGURACION_EMOCIONES[motor_actual][emocion]
           a1 == Ajuste(prosodia, "velocidad",
                        Ajustado(motor_actual, tabla.speed, intensidad), error)
           a2 == Ajuste(a1.despues, "tono",
                        Ajustado(motor_actual, tabla.pitch, intensidad), error)
           previas == IF ConEmocion(motor_actual) THEN <<a1, a2>> ELSE <<>>
           cfg == IF ConEmocion(motor_actual) THEN a2.despues ELSE prosodia
           a3 == Ajuste(cfg, "velocidad", prosodia.velocidad, error)
           a4 == Ajuste(a3.despues, "tono", prosodia.tono, error)
       IN  /\ ajustes' = previas \o <<a3, a4>>
           /\ prosodia' = a4.despues
           /\ voces' = [voces EXCEPT !.mensajes = @ \o Emotivo(cfg)]
    /\ archivo_config' = ConfigGuardada(ajustes', guardado)
    /\ EncolarMensaje(FALSE)
    /\ UNCHANGED <<hablando, iniciado, motor_actual, config_motor, nativos, hilos,
                   sincrono, cambio, hablado, sacados, intentos>>

(***************************************************************************)
(* ManoRoboticaManager (sistema/mano_robotica.py): the serial queue and    *)
(* its sender worker.  The k-th message enviar_mensaje accepts is k.       *)
(***************************************************************************)
\* mensaje = self.cola_mensajes.pop(), taking from the back.
SacarUltimo(cola) ==
    [mensaje |-> cola[Len(cola)], resto |-> SubSeq(cola, 1, Len(cola) - 1)]

\* mensaje = self.cola_mensajes.pop(0)
Sacar(cola) == [mensaje |-> Head(cola), resto |-> Tail(cola)]

\* enviar_mensaje: on a closed link it returns False and queues nothing.
enviar_mensaje ==
    /\ Len(enviados) < MaxSerie
    /\ IF conectada
       THEN /\ cola_mano' = Append(cola_mano, Len(enviados) + 1)
            /\ enviados' = Append(enviados, Len(enviados) + 1)
       ELSE UNCHANGED <<cola_mano, enviados>>
    /\ UNCHANGED <<conectada, hilo_envio, puerto, escritos>>

\* One step of _procesar_cola_mensajes: the loop test; the queue test with
\* the pop; the write, which succeeds (escrito) or raises and is logged.  A
\* write on a closed port raises.
_procesar_cola_mensajes(escrito) ==
    \/ /\ hilo_envio.pc = "bucle"
       /\ escrito
       /\ hilo_envio' = [hilo_envio EXCEPT !.pc = IF conectada THEN "mirar" ELSE "muerto"]
       /\ UNCHANGED <<conectada, cola_mano, puerto, escritos, enviados>>
    \/ /\ hilo_envio.pc = "mirar"
       /\ escrito
       /\ IF cola_mano # <<>>
          THEN /\ hilo_envio' = [pc |-> "escribir", mensaje |-> Sacar(cola_mano).mensaje]
               /\ cola_mano' = Sacar(cola_mano).resto
          ELSE /\ hilo_envio' = [hilo_envio EXCEPT !.pc = "bucle"]
               /\ UNCHANGED cola_mano
       /\ UNCHANGED <<conectada, puerto, escritos, enviados>>
    \/ /\ hilo_envio.pc = "escribir"
       /\ escrito => puerto = "abierto"
       /\ escritos' = IF escrito THEN Append(escritos, hilo_envio.mensaje) ELSE escritos
       /\ hilo_envio' = [pc |-> "bucle", mensaje |-> 0]
       /\ UNCHANGED <<conectada, cola_mano, puerto, enviados>>

\* ManoRoboticaManager.cerrar: the flag, the join of at most 2 s, the close.
cerrar_mano ==
    /\ IF conectada
       THEN conectada' = FALSE /\ puerto' = "cerrado"
       ELSE UNCHANGED <<conectada, puerto>>
    /\ UNCHANGED <<cola_mano, hilo_envio, escritos, enviados>>

(***************************************************************************)
(* DibujoManager.__init__                                                  *)
(***************************************************************************)
Init ==
    /\ dibujo = Blanco
    /\ historial_trazos = <<>>
    /\ historial_index = -1
    /\ puntos_dibujo = <<>>
    /\ dibujando = FALSE
    /\ color_dibujo = 1
    /\ grosor_linea = 1
    /\ radio_borrador = 1
    /\ archivo_sesion = [estado |-> "ausente"]
    /\ ultima = Retorno("init", "None")
    /\ pasos = 0
    /\ rama = "inicio"
    /\ lienzo_previo = Blanco
    /\ escenario = <<0, 0>>
    /\ reloj = 0
    /\ ultimo_autosave = 0
    /\ autosaves = {}
    /\ autoguardado = "no"
    /\ InitGestos
    /\ InitVoz

\* The fields a call that touches neither style nor disk leaves alone.
SinEstilo == UNCHANGED <<color_dibujo, grosor_linea, radio_borrador, archivo_sesion>>

\* if self.historial_trazos and self.historial_index >= 0
HayTrazoActual == historial_trazos # <<>> /\ historial_index >= 0

\* historial_trazos[historial_index]['puntos'] raises: the index is beyond the list
\* (IndexError) or the record has no points (KeyError).
TrazoActualFalla ==
    \/ historial_index + 1 > Len(historial_trazos)
    \/ ~TienePuntos(historial_trazos[historial_index + 1])

\* historial_trazos[historial_index]['puntos'].append((x, y))
ConPunto(x, y) ==
    [historial_trazos EXCEPT ![historial_index + 1].puntos = Append(@, <<x, y>>)]

\* A faulty variant: the append without the slice, which keeps the records
\* beyond the cursor.
ConNuevoSinTruncar(trazo) == Append(historial_trazos, trazo)

\* The record list after historial_trazos[:historial_index + 1] and an append.
ConNuevo(trazo) == Append(Hasta(historial_trazos, historial_index + 1), trazo)

\* dibujar_punto(x, y) where no stroke is open: a new draw record.
dibujar_nuevo(x, y) ==
    /\ Len(Hasta(historial_trazos, historial_index + 1)) < MaxTrazos
    /\ puntos_dibujo' = << <<x, y>> >>
    /\ dibujando' = TRUE
    /\ historial_trazos' = ConNuevo([tipo |-> "trazo", color |-> color_dibujo,
                                     grosor |-> grosor_linea,
                                     puntos |-> << <<x, y>> >>])
    /\ historial_index' = Len(historial_trazos') - 1
    /\ ultima' = Retorno("dibujar_punto", "None")
    /\ UNCHANGED dibujo

\* dibujar_punto(x, y) while a stroke is open: the point joins the buffer and the
\* record under the cursor, and the segment from the previous buffered point is
\* painted with the current colour and width.
dibujar_continuar(x, y) ==
    LET buffer == Append(puntos_dibujo, <<x, y>>)
        pintado == IF Len(buffer) > 1
                   THEN Linea(dibujo, buffer[Len(buffer) - 1], buffer[Len(buffer)],
                              color_dibujo, grosor_linea)
                   ELSE dibujo
    IN  /\ Len(puntos_dibujo) < MaxPuntos
        /\ puntos_dibujo' = buffer
        /\ IF HayTrazoActual /\ TrazoActualFalla
           THEN /\ ultima' = Retorno("dibujar_punto", "excepcion")
                /\ UNCHANGED <<historial_trazos, dibujo>>
           ELSE /\ IF HayTrazoActual
                   THEN /\ Len(historial_trazos[historial_index + 1].puntos) < MaxPuntos
                        /\ historial_trazos' = ConPunto(x, y)
                   ELSE UNCHANGED historial_trazos
                /\ dibujo' = pintado
                /\ ultima' = Retorno("dibujar_punto", "None")
        /\ UNCHANGED <<historial_index, dibujando>>

\* dibujo.autosave_interval, default 60 seconds, in tenths of a second.
autosave_interval == 600

\* strftime('%Y%m%d_%H%M%S'): the timestamp of a file name, to the second.
Marca(t) == t \div 10

\* autosaves[:-5]: how many autosave files the pruning keeps.
conservados == 5

\* The n files of a directory listing that sort last.
Recientes(archivos, n) ==
    {f \in archivos : Cardinality({g \in archivos : g > f}) < n}

\* _auto_guardar_sesion at time reloj.  fallo = "listar": os.listdir raises and
\* nothing is done; otherwise the files before the last five of a listing of
\* more than five are removed, except those (quedan) whose os.remove raises.
\* "abrir": open() raises; "escribir": open() has created the file when
\* pickle.dump raises; "no": the bundle is written.
_auto_guardar_sesion(fallo, quedan) ==
    LET viejos == IF Cardinality(autosaves) > conservados
                  THEN autosaves \ Recientes(autosaves, conservados)
                  ELSE {}
        podados == autosaves \ (viejos \ quedan)
    IN  /\ quedan \subseteq viejos
        /\ fallo = "listar" => quedan = {}
        /\ autosaves' = IF fallo = "listar" THEN autosaves
                        ELSE IF fallo = "abrir" THEN podados
                        ELSE podados \cup {Marca(reloj)}
        /\ autoguardado' = IF fallo = "no" THEN "hecho" ELSE "fallido"

\* The tail of dibujar_punto: if time.time() - self.ultimo_autosave > interval.
\* It is reached for a point on the canvas when no exception left the method.
VerificarAutosave(x, y) ==
    IF /\ EnLienzo(x, y)
       /\ ultima'.ret # "excepcion"
       /\ reloj - ultimo_autosave > autosave_interval
    THEN /\ \E fallo \in {"no", "listar", "abrir", "escribir"} :
              \E quedan \in SUBSET autosaves : _auto_guardar_sesion(fallo, quedan)
         /\ ultimo_autosave' = reloj
         /\ UNCHANGED reloj
    ELSE /\ autoguardado' = "no"
         /\ UNCHANGED <<reloj, ultimo_autosave, autosaves>>

dibujar_punto(x, y) ==
    /\ IF EnLienzo(x, y)
       THEN IF ~dibujando THEN dibujar_nuevo(x, y) ELSE dibujar_continuar(x, y)
       ELSE /\ ultima' = Retorno("dibujar_punto", "None")
            /\ UNCHANGED <<dibujo, historial_trazos, historial_index,
                           puntos_dibujo, dibujando>>
    /\ SinEstilo
    /\ VerificarAutosave(x, y)

\* borrar_punto(x, y) where no stroke is open: a new erase record, then the circle.
borrar_nuevo(x, y) ==
    /\ Len(Hasta(historial_trazos, historial_index + 1)) < MaxTrazos
    /\ dibujando' = TRUE
    /\ historial_trazos' = ConNuevo([tipo |-> "borrado", radio |-> radio_borrador,
                                     puntos |-> << <<x, y>> >>])
    /\ historial_index' = Len(historial_trazos') - 1
    /\ dibujo' = Circulo(dibujo, <<x, y>>, radio_borrador, color_borrador)
    /\ ultima' = Retorno("borrar_punto", "None")

\* borrar_punto(x, y) while a stroke is open: the point joins the record under
\* the cursor, then the circle is painted with the current radius.
borrar_continuar(x, y) ==
    /\ IF HayTrazoActual /\ TrazoActualFalla
       THEN /\ ultima' = Retorno("borrar_punto", "excepcion")
            /\ UNCHANGED <<historial_trazos, dibujo>>
       ELSE /\ IF HayTrazoActual
               THEN /\ Len(historial_trazos[historial_index + 1].puntos) < MaxPuntos
                    /\ historial_trazos' = ConPunto(x, y)
               ELSE UNCHANGED historial_trazos
            /\ dibujo' = Circulo(dibujo, <<x, y>>, radio_borrador, color_borrador)
            /\ ultima' = Retorno("borrar_punto", "None")
    /\ UNCHANGED <<historial_index, dibujando>>

borrar_punto(x, y) ==
    /\ IF EnLienzo(x, y)
       THEN IF ~dibujando THEN borrar_nuevo(x, y) ELSE borrar_continuar(x, y)
       ELSE /\ ultima' = Retorno("borrar_punto", "None")
            /\ UNCHANGED <<dibujo, historial_trazos, historial_index, dibujando>>
    /\ UNCHANGED puntos_dibujo
    /\ SinEstilo

terminar_dibujo ==
    /\ dibujando' = FALSE
    /\ puntos_dibujo' = <<>>
    /\ ultima' = Retorno("terminar_dibujo", "None")
    /\ UNCHANGED <<dibujo, historial_trazos, historial_index>>
    /\ SinEstilo

\* A faulty variant of limpiar_dibujo that forgets to reset the cursor.
limpiar_dibujo_sin_cursor ==
    /\ dibujo' = Blanco
    /\ historial_trazos' = <<>>
    /\ ultima' = Retorno("limpiar_dibujo", "None")
    /\ UNCHANGED <<historial_index, puntos_dibujo, dibujando>>
    /\ SinEstilo

\* A faulty variant of limpiar_dibujo that blanks the canvas and keeps the log.
limpiar_dibujo_sin_historial ==
    /\ dibujo' = Blanco
    /\ ultima' = Retorno("limpiar_dibujo", "None")
    /\ UNCHANGED <<historial_trazos, historial_index, puntos_dibujo, dibujando>>
    /\ SinEstilo

limpiar_dibujo ==
    /\ dibujo' = Blanco
    /\ historial_trazos' = <<>>
    /\ historial_index' = -1
    /\ ultima' = Retorno("limpiar_dibujo", "None")
    /\ UNCHANGED <<puntos_dibujo, dibujando>>
    /\ SinEstilo

cambiar_color(color) ==
    /\ color_dibujo' = color
    /\ ultima' = Retorno("cambiar_color", "None")
    /\ UNCHANGED <<dibujo, historial_trazos, historial_index, puntos_dibujo,
                   dibujando, grosor_linea, radio_borrador, archivo_sesion>>

cambiar_grosor(grosor) ==
    /\ grosor_linea' = IF grosor > 0 THEN grosor ELSE grosor_linea
    /\ ultima' = Retorno("cambiar_grosor", "None")
    /\ UNCHANGED <<dibujo, historial_trazos, historial_index, puntos_dibujo,
                   dibujando, color_dibujo, radio_borrador, archivo_sesion>>

cambiar_radio_borrador(radio) ==
    /\ radio_borrador' = IF radio > 0 THEN radio ELSE radio_borrador
    /\ ultima' = Retorno("cambiar_radio_borrador", "None")
    /\ UNCHANGED <<dibujo, historial_trazos, historial_index, puntos_dibujo,
                   dibujando, color_dibujo, grosor_linea, archivo_sesion>>

\* A faulty variant: the cursor moves and the canvas is not rebuilt.
MoverCursorSinReconstruir(op, idx) ==
    /\ historial_index' = idx
    /\ ultima' = Retorno(op, "True")
    /\ UNCHANGED dibujo

\* The cursor moved to idx and the canvas rebuilt; an error of the rebuild leaves
\* the method as an exception, after the cursor and the canvas were assigned.
MoverCursor(op, idx) ==
    LET r == ReconstruirDibujo(historial_trazos, idx)
    IN  /\ historial_index' = idx
        /\ dibujo' = r.img
        /\ ultima' = Retorno(op, IF r.error THEN "excepcion" ELSE "True")

\* A faulty variant of deshacer whose guard lets the cursor go below -1.
deshacer_sin_limite ==
    /\ IF historial_index >= -1
       THEN MoverCursor("deshacer", historial_index - 1)
       ELSE /\ ultima' = Retorno("deshacer", "False")
            /\ UNCHANGED <<dibujo, historial_index>>
    /\ UNCHANGED <<historial_trazos, puntos_dibujo, dibujando>>
    /\ SinEstilo

deshacer ==
    /\ IF historial_index >= 0
       THEN MoverCursor("deshacer", historial_index - 1)
       ELSE /\ ultima' = Retorno("deshacer", "False")
            /\ UNCHANGED <<dibujo, historial_index>>
    /\ UNCHANGED <<historial_trazos, puntos_dibujo, dibujando>>
    /\ SinEstilo

rehacer ==
    /\ IF historial_index < Len(historial_trazos) - 1
       THEN MoverCursor("rehacer", historial_index + 1)
       ELSE /\ ultima' = Retorno("rehacer", "False")
            /\ UNCHANGED <<dibujo, historial_index>>
    /\ UNCHANGED <<historial_trazos, puntos_dibujo, dibujando>>
    /\ SinEstilo

(***************************************************************************)
(* Image and session files.                                                *)
(***************************************************************************)
\* The image files cargar_dibujo can be pointed at: one uniform raster per colour
\* (already of the canvas size, or resized to it).
Imagenes == {[p \in Pixeles |-> c] : c \in Colores}

cargar_dibujo(legible, img) ==
    /\ IF legible
       THEN /\ dibujo' = img
            /\ historial_trazos' = << [tipo |-> "imagen_cargada", origen |-> img[<<0, 0>>]] >>
            /\ historial_index' = 0
            /\ ultima' = Retorno("cargar_dibujo", "True")
       ELSE /\ ultima' = Retorno("cargar_dibujo", "False")
            /\ UNCHANGED <<dibujo, historial_trazos, historial_index>>
    /\ UNCHANGED <<puntos_dibujo, dibujando>>
    /\ SinEstilo

\* self.dibujo.tolist(): the raster as a list of rows of pixel values.
ALista(img) ==
    [y \in 1 .. resolution[2] |-> [x \in 1 .. resolution[1] |-> img[<<x - 1, y - 1>>]]]

\* np.array(lista, dtype=np.uint8)
DeLista(lista) == [p \in Pixeles |-> lista[p[2] + 1][p[1] + 1] % 256]

\* The keys cargar_sesion reads, in the order it reads them.
Orden == <<"dibujo", "historial_trazos", "historial_index",
           "color_dibujo", "grosor_linea", "radio_borrador">>

Claves == {Orden[i] : i \in 1 .. Len(Orden)}

\* datos_sesion of guardar_sesion: pickle.dump writes a copy of the values.
DatosSesion ==
    [dibujo |-> ALista(dibujo),
     historial_trazos |-> historial_trazos,
     historial_index |-> historial_index,
     color_dibujo |-> color_dibujo,
     grosor_linea |-> grosor_linea,
     radio_borrador |-> radio_borrador]

\* guardar_sesion.  fallo = "no": the bundle is written and the path returned;
\* "abrir": open() raises and the file stays as it was; "escribir": open() has
\* truncated the file when pickle.dump raises.  A failure returns "".
guardar_sesion(fallo) ==
    /\ archivo_sesion' =
          IF fallo = "no" THEN [estado |-> "ok", claves |-> Claves, datos |-> DatosSesion]
          ELSE IF fallo = "escribir" THEN [estado |-> "ilegible"]
          ELSE archivo_sesion
    /\ ultima' = Retorno("guardar_sesion", IF fallo = "no" THEN "ruta" ELSE "")
    /\ UNCHANGED <<dibujo, historial_trazos, historial_index, puntos_dibujo,
                   dibujando, color_dibujo, grosor_linea, radio_borrador>>

\* A session bundle left in the sessions directory by an earlier run, saved after
\* a two-point stroke drawn with colour 2 and width 3 had been undone.
DatosAnteriores ==
    [dibujo |-> ALista(Blanco),
     historial_trazos |-> << [tipo |-> "trazo", color |-> 2, grosor |-> 3,
                              puntos |-> << <<0, 0>>, <<1, 0>> >>] >>,
     historial_index |-> -1,
     color_dibujo |-> 2,
     grosor_linea |-> 3,
     radio_borrador |-> 2]

\* The paths cargar_sesion is called with: the file guardar_sesion writes, the
\* earlier run's file, a path where nothing exists, a file pickle cannot read,
\* and (named by the key) a copy of the earlier bundle that lacks that key.
Rutas == {"guardada", "anterior", "inexistente", "corrupta"} \cup Claves

\* What lies at a path: os.path.exists, then pickle.load.
Leer(ruta) ==
    IF ruta = "guardada" THEN archivo_sesion
    ELSE IF ruta = "anterior"
        THEN [estado |-> "ok", claves |-> Claves, datos |-> DatosAnteriores]
    ELSE IF ruta = "inexistente" THEN [estado |-> "ausente"]
    ELSE IF ruta = "corrupta" THEN [estado |-> "ilegible"]
    ELSE [estado |-> "ok", claves |-> Claves \ {ruta}, datos |-> DatosAnteriores]

\* How many of the assignments of cargar_sesion run before datos_sesion[key]
\* raises KeyError.
RECURSIVE Asignados(_, _)
Asignados(claves, i) ==
    IF i > Len(Orden) \/ Orden[i] \notin claves THEN i - 1
    ELSE Asignados(claves, i + 1)

\* A faulty variant of cargar_sesion that restores every field but the cursor.
cargar_sesion_sin_indice(ruta) ==
    LET f == Leer(ruta)
        k == IF f.estado = "ok" THEN Asignados(f.claves, 1) ELSE 0
    IN  /\ dibujo' = IF k >= 1 THEN DeLista(f.datos.dibujo) ELSE dibujo
        /\ historial_trazos' = IF k >= 2 THEN f.datos.historial_trazos
                               ELSE historial_trazos
        /\ color_dibujo' = IF k >= 4 THEN f.datos.color_dibujo ELSE color_dibujo
        /\ grosor_linea' = IF k >= 5 THEN f.datos.grosor_linea ELSE grosor_linea
        /\ radio_borrador' = IF k >= 6 THEN f.datos.radio_borrador ELSE radio_borrador
        /\ ultima' = [op |-> "cargar_sesion",
                       ret |-> IF k = Len(Orden) THEN "True" ELSE "False",
                       arg |-> ruta]
        /\ UNCHANGED <<historial_index, puntos_dibujo, dibujando, archivo_sesion>>

cargar_sesion(ruta) ==
    LET f == Leer(ruta)
        k == IF f.estado = "ok" THEN Asignados(f.claves, 1) ELSE 0
    IN  /\ dibujo' = IF k >= 1 THEN DeLista(f.datos.dibujo) ELSE dibujo
        /\ historial_trazos' = IF k >= 2 THEN f.datos.historial_trazos
                               ELSE historial_trazos
        /\ historial_index' = IF k >= 3 THEN f.datos.historial_index
                              ELSE historial_index
        /\ color_dibujo' = IF k >= 4 THEN f.datos.color_dibujo ELSE color_dibujo
        /\ grosor_linea' = IF k >= 5 THEN f.datos.grosor_linea ELSE grosor_linea
        /\ radio_borrador' = IF k >= 6 THEN f.datos.radio_borrador ELSE radio_borrador
        /\ ultima' = [op |-> "cargar_sesion",
                       ret |-> IF k = Len(Orden) THEN "True" ELSE "False",
                       arg |-> ruta]
        /\ UNCHANGED <<puntos_dibujo, dibujando, archivo_sesion>>

(***************************************************************************)
(* The gesture dispatcher (sistema/sistema_interactivo.py).  One pass of   *)
(* _procesar_gestos is the stroke call (pc = "frame") and, where a closed  *)
(* fist lies on a button, the button action with its pause (pc = "boton"). *)
(***************************************************************************)
\* A call other than dibujar_punto touches neither the clock nor the autosaves.
SinAutosave == ultima'.op # "dibujar_punto" => UNCHANGED vars_autosave

\* A call made on the manager directly leaves the dispatcher alone.
SinGestos == UNCHANGED vars_gestos

\* The voice engine, the serial link and the shutdown, which the drawing and
\* dispatcher calls modelled above leave alone.
SinVoz == UNCHANGED <<vars_voz, vars_prosodia, vars_serie, vars_cierre, vars_ocr>>

\* time.sleep(0.5), in tenths of a second.
pausa == 5

\* A faulty variant: no pause after a button action.
SinPausa == {0}

\* How long the sleep can last: the pause, or longer.
Pausas == {pausa, pausa + 1}

\* A faulty variant of the drawing gesture that does not look at the middle finger.
SoloIndiceSinMedio(dedos) == dedos[2] /\ ~(dedos[4] \/ dedos[5])

\* dedos_levantados[1] and not any(dedos_levantados[2:])
SoloIndice(dedos) == dedos[2] /\ ~(dedos[3] \/ dedos[4] \/ dedos[5])

\* not any(dedos_levantados)
NingunDedo(dedos) == \A i \in 1 .. 5 : ~dedos[i]

\* The stroke call of _procesar_gestos for one hand.
LlamadaDeTrazo(dedos, x, y) ==
    IF modo_actual = "dibujar" /\ SoloIndice(dedos) THEN dibujar_punto(x, y)
    ELSE IF modo_actual = "borrar" THEN borrar_punto(x, y) /\ SinAutosave
    ELSE terminar_dibujo /\ SinAutosave

\* _procesar_gestos up to the button check.  Without a hand it returns at once.
\* An exception of the stroke call leaves the main loop.
_procesar_gestos(mano, dedos, x, y) ==
    /\ pc = "frame"
    /\ IF ~mano
       THEN /\ UNCHANGED <<estado, vars_autosave>>
            /\ cuadro' = [mano |-> FALSE, dedos |-> dedos, llamada |-> "ninguna"]
            /\ pendiente' = "None"
            /\ pc' = "frame"
       ELSE /\ LlamadaDeTrazo(dedos, x, y)
            /\ cuadro' = [mano |-> TRUE, dedos |-> dedos, llamada |-> ultima'.op]
            /\ pendiente' = IF NingunDedo(dedos) /\ ultima'.ret # "excepcion"
                            THEN verificar_punto_en_boton(x, y) ELSE "None"
            /\ pc' = IF ultima'.ret = "excepcion" THEN "cerrado"
                     ELSE IF pendiente' # "None" THEN "boton" ELSE "frame"
    /\ UNCHANGED <<modo_actual, ejecutando, accion, botones, consulta>>

\* _procesar_guardado: the session is saved (or the save fails).
_procesar_guardado == \E fallo \in {"no", "abrir", "escribir"} : guardar_sesion(fallo)

\* A faulty variant: the mode buttons clear the manager as Limpiar does.
SinManagerLimpiando == limpiar_dibujo

\* The manager fields a button that only switches the mode leaves alone.
SinManager == UNCHANGED estado

_procesar_accion_boton(boton) ==
    IF boton = "Dibujar"
        THEN modo_actual' = "dibujar" /\ SinManager /\ UNCHANGED ejecutando
    ELSE IF boton = "Borrar"
        THEN modo_actual' = "borrar" /\ SinManager /\ UNCHANGED ejecutando
    ELSE IF boton = "Limpiar"
        THEN limpiar_dibujo /\ modo_actual' = "None" /\ UNCHANGED ejecutando
    ELSE IF boton = "Guardar"
        THEN _procesar_guardado /\ modo_actual' = "None" /\ UNCHANGED ejecutando
    ELSE IF boton = "Salir"
        THEN ejecutando' = FALSE /\ SinManager /\ UNCHANGED modo_actual
    ELSE SinManager /\ UNCHANGED <<modo_actual, ejecutando>>

\* The rest of _procesar_gestos: the button action, then time.sleep(0.5).  The
\* loop ends after the pass that cleared ejecutando.
AccionDeBoton(d) ==
    /\ pc = "boton"
    /\ reloj + d <= MaxDecimas
    /\ _procesar_accion_boton(pendiente)
    /\ reloj' = reloj + d
    /\ accion' = [boton |-> pendiente, hora |-> reloj]
    /\ pendiente' = "None"
    /\ pc' = IF ejecutando' THEN "frame" ELSE "cerrado"
    /\ UNCHANGED <<ultimo_autosave, autosaves, autoguardado, cuadro, botones, consulta>>

\* The time one pass of the main loop takes when it does not pause.
PasaTiempo ==
    /\ pc = "frame"
    /\ reloj < MaxDecimas
    /\ reloj' = reloj + 1
    /\ UNCHANGED <<estado, ultimo_autosave, autosaves, autoguardado, vars_gestos>>

\* A direct call of the hit test.
ConsultarBoton(x, y) ==
    /\ consulta' = [hecha |-> TRUE, x |-> x, y |-> y,
                     ret |-> verificar_punto_en_boton(x, y)]
    /\ UNCHANGED <<estado, vars_autosave, modo_actual, ejecutando, pc, pendiente,
                   cuadro, accion, botones>>

(***************************************************************************)
(* SistemaInteractivo.ejecutar and SistemaInteractivo.cerrar: how the main *)
(* loop ends, and the teardown that follows, one step at a time.           *)
(***************************************************************************)
\* The calls of one pass of the loop that are inside no try of their own: the
\* gesture dispatch, obtener_dibujo, dar_estadisticas_periodicas, and
\* cv2.waitKey with the key handlers.  (procesar_frame, dibujar_ui and
\* mostrar_frame catch their own errors; a failed tracking is a frame
\* without a hand.)
EtapasSinProteccion == {"gestos", "dibujo", "estadisticas", "teclas"}

\* An exception leaves one of those calls: it reaches the except clauses that
\* enclose the while loop, is logged, and the finally clause runs cerrar.
ErrorEnCuadro(etapa) ==
    /\ pc = "frame"
    /\ etapa \in EtapasSinProteccion
    /\ pc' = "cerrado"
    /\ fin' = "error"
    /\ UNCHANGED <<estado, vars_autosave, modo_actual, ejecutando, pendiente, cuadro,
                   accion, botones, consulta, cierre>>

\* The keys read by cv2.waitKey: q and ESC clear ejecutando, s saves the
\* session, any other key leaves the drawing and the loop alone.
Teclas == {"q", "ESC", "s"}

Tecla(tecla, fallo) ==
    /\ pc = "frame"
    /\ IF tecla \in {"q", "ESC"}
       THEN /\ fallo = "no"
            /\ ejecutando' = FALSE
            /\ pc' = "cerrado"
            /\ fin' = "tecla"
            /\ UNCHANGED estado
       ELSE /\ guardar_sesion(fallo)
            /\ UNCHANGED <<ejecutando, pc, fin>>
    /\ UNCHANGED <<vars_autosave, modo_actual, pendiente, cuadro, accion, botones,
                   consulta, cierre>>

\* except KeyboardInterrupt: an interrupt from outside, at any point of a pass.
Interrupcion ==
    /\ pc \in {"frame", "boton"}
    /\ pc' = "cerrado"
    /\ fin' = "interrupcion"
    /\ UNCHANGED <<estado, vars_autosave, modo_actual, ejecutando, pendiente, cuadro,
                   accion, botones, consulta, cierre>>

\* What a pass of the loop modelled above leaves in fin: the loop ended because
\* the Salir button cleared ejecutando, or because the stroke call raised.
FinDelCuadro ==
    /\ fin' = IF pc' = "cerrado" THEN (IF ejecutando' THEN "error" ELSE "salir") ELSE fin
    /\ UNCHANGED cierre

\* The calls of SistemaInteractivo.cerrar, in the order of its text.
PasosDeCierre == <<"despedir", "guardar_sesion", "mano_robotica", "hand_tracker",
                   "voice_engine", "kinect_manager", "ui_manager">>

Indice(paso) == CHOOSE i \in 1 .. Len(PasosDeCierre) : PasosDeCierre[i] = paso

\* One entry of the teardown log: the call, what it did, whether that worked.
Evento(paso, evento, ok) == [paso |-> paso, evento |-> evento, ok |-> ok]

\* The teardown left cerrar by an exception no try caught.
Abortado == cierre # <<>> /\ cierre[Len(cierre)].evento = "excepcion"

\* cerrar has returned or was left by an exception.
Terminado ==
    cierre # <<>> /\ (Abortado \/ cierre[Len(cierre)].paso = "ui_manager")

PasoSiguiente ==
    IF cierre = <<>> THEN "despedir"
    ELSE PasosDeCierre[Indice(cierre[Len(cierre)].paso) + 1]

\* AsistenteVirtual.despedir: the statistics phrase is queued with priority,
\* then the music fade-out (which can raise; falla), then the farewell phrase
\* is queued with priority.  A closed voice engine queues nothing.  The call
\* stands outside every try of cerrar: its exception leaves cerrar.
despedir(activo, falla) ==
    /\ cola_mensajes' =
          IF ~activo \/ ~iniciado THEN cola_mensajes
          ELSE IF falla THEN Encolar(cola_mensajes, "estadisticas", TRUE)
          ELSE Encolar(Encolar(cola_mensajes, "estadisticas", TRUE), "despedida", TRUE)
    /\ cierre' = Append(cierre,
          IF ~activo THEN Evento("despedir", "omitido", TRUE)
          ELSE IF falla THEN Evento("despedir", "excepcion", FALSE)
          ELSE Evento("despedir", "hecho", TRUE))
    /\ UNCHANGED <<hablando, iniciado, motor_actual, config_motor, archivo_config,
                   nativos, hilos, sincrono, cambio, hablado, sacados, intentos,
                   pedidos, ultima_voz>>
    /\ UNCHANGED <<estado, vars_serie>>

\* ManoRoboticaManager.cerrar as cerrar calls it: the flag is cleared, the
\* worker is joined, the port is closed (falla: close raises and is logged).
cerrar_mano_robotica(falla) ==
    /\ IF conectada
       THEN /\ conectada' = FALSE
            /\ puerto' = IF falla THEN puerto ELSE "cerrado"
            /\ UNCHANGED <<cola_mano, hilo_envio, escritos, enviados>>
            /\ cierre' = cierre \o << Evento("mano_robotica", "conectada", TRUE),
                                      Evento("mano_robotica", "join", TRUE),
                                      Evento("mano_robotica", "close", ~falla) >>
       ELSE /\ ~falla
            /\ UNCHANGED vars_serie
            /\ cierre' = Append(cierre, Evento("mano_robotica", "omitido", TRUE))
    /\ UNCHANGED <<estado, vars_voz>>

\* VoiceEngine.cerrar as cerrar calls it.  With pyttsx3 the engine is stopped
\* before iniciado is cleared and the worker joined; falla: engine.stop()
\* raises, which skips both.
cerrar_voice_engine(falla, guardado) ==
    /\ IF iniciado /\ falla
       THEN /\ motor_actual = "pyttsx3"
            /\ cola_mensajes' = <<>>
            /\ hablando' = FALSE
            /\ archivo_config' = IF guardado THEN config_motor ELSE archivo_config
            /\ ultima_voz' = RetornoVoz("cerrar", "None")
            /\ UNCHANGED <<iniciado, motor_actual, config_motor, nativos, hilos, sincrono,
                           cambio, hablado, sacados, intentos, pedidos>>
            /\ cierre' = Append(cierre, Evento("voice_engine", "stop", FALSE))
       ELSE /\ ~falla
            /\ cerrar_voz(guardado)
            /\ cierre' = cierre \o
                  (IF ~iniciado THEN << Evento("voice_engine", "omitido", TRUE) >>
                   ELSE (IF motor_actual = "pyttsx3"
                         THEN << Evento("voice_engine", "stop", TRUE) >> ELSE << >>)
                        \o << Evento("voice_engine", "iniciado", TRUE),
                              Evento("voice_engine", "join", TRUE) >>)
    /\ UNCHANGED <<estado, vars_serie>>

\* One call of SistemaInteractivo.cerrar.  The calls run one after the other
\* while the other threads go on; ejecutando is not written.
cerrar(activo, falla, fallo, guardado) ==
    /\ pc = "cerrado"
    /\ ~Terminado
    /\ IF PasoSiguiente = "despedir"
          THEN fallo = "no" /\ guardado /\ despedir(activo, falla)
       ELSE IF PasoSiguiente = "guardar_sesion"
          THEN /\ activo /\ guardado /\ falla = (fallo # "no")
               /\ guardar_sesion(fallo)
               /\ cierre' = Append(cierre, Evento("guardar_sesion", "hecho", ~falla))
               /\ UNCHANGED <<vars_voz, vars_serie>>
       ELSE IF PasoSiguiente = "mano_robotica"
          THEN activo /\ fallo = "no" /\ guardado /\ cerrar_mano_robotica(falla)
       ELSE IF PasoSiguiente = "voice_engine"
          THEN activo /\ fallo = "no" /\ cerrar_voice_engine(falla, guardado)
       ELSE /\ activo /\ fallo = "no" /\ guardado
            /\ cierre' = Append(cierre, Evento(PasoSiguiente,
                  IF PasoSiguiente = "hand_tracker" THEN "close"
                  ELSE IF PasoSiguiente = "kinect_manager" THEN "release"
                  ELSE "destroy", ~falla))
            /\ UNCHANGED <<estado, vars_voz, vars_serie>>
    /\ UNCHANGED <<vars_autosave, vars_gestos, fin>>

(***************************************************************************)
(* SistemaInteractivo._reconocer_texto_hilo: the thread the save action    *)
(* starts.  A text is a sequence of pieces; confidences are in thousandths.*)
(***************************************************************************)
MaxResultados == 2

\* What reader.readtext can return for one detection: its text (which can be
\* empty) and its confidence.  reconocer_texto returns the list unfiltered.
Detecciones == [texto : {"", "a", "b"}, prob : {0, 300, 500, 501}]

Resultados == UNION {[1 .. n -> Detecciones] : n \in 0 .. MaxResultados}

\* " ".join(textos)
RECURSIVE Unir(_)
Unir(textos) ==
    IF Len(textos) = 0 THEN <<>>
    ELSE IF Len(textos) = 1 THEN <<textos[1]>>
    ELSE <<textos[1], " ">> \o Unir(Tail(textos))

RECURSIVE TextosDe(_)
TextosDe(resultados) ==
    IF resultados = <<>> THEN <<>>
    ELSE <<resultados[1].texto>> \o TextosDe(Tail(resultados))

\* [texto for (_, texto, _) in resultados if _ and texto]: the second _ of the
\* pattern rebinds the first, so _ is the confidence; the test is its truth
\* value, prob != 0, and that the text is not empty.
Pasa(r) == r.prob # 0 /\ r.texto # ""

\* Up to the narration: the OCR call, the join, texto_reconocido.txt, the
\* message on screen and anunciar_texto_reconocido all use texto_reconocido.
\* An empty result list only reports that nothing was recognised.
reconocer(resultados) ==
    /\ reconocimiento.pc \in {"no", "fin"}
    /\ Len(pedidos) < MaxVoz
    /\ reconocimiento' =
          [pc |-> IF resultados = <<>> THEN "fin" ELSE "voz",
           resultados |-> resultados,
           texto |-> Unir(TextosDe(SelectSeq(resultados, Pasa)))]
    /\ UNCHANGED <<vars_voz, vars_serie>>

\* if voice_engine.iniciado: the switch to google_tts when another backend
\* runs, up to the point where cambiar_motor has stopped it.
reconocer_cambio ==
    /\ reconocimiento.pc = "voz"
    /\ iniciado /\ motor_actual \notin {"None", "google_tts"}
    /\ cambiar_motor("google_tts")
    /\ reconocimiento' = [reconocimiento EXCEPT !.pc = "cambiando"]
    /\ UNCHANGED vars_serie

\* The rest of that cambiar_motor call.
reconocer_arranque(guardado, r, r2) ==
    /\ reconocimiento.pc = "cambiando"
    /\ cambiar_motor_arranque(guardado, r, r2)
    /\ reconocimiento' = [reconocimiento EXCEPT !.pc = "hablar"]
    /\ UNCHANGED vars_serie

\* voice_engine.hablar(f"Texto reconocido: {texto_reconocido}"), skipped when
\* the engine was not started.
reconocer_hablar ==
    /\ \/ reconocimiento.pc = "hablar"
       \/ reconocimiento.pc = "voz" /\ motor_actual \in {"None", "google_tts"} /\ iniciado
    /\ hablar(FALSE)
    /\ reconocimiento' = [reconocimiento EXCEPT !.pc = "mano"]
    /\ UNCHANGED vars_serie

\* if mano_robotica.conectada: enviar_mensaje(texto_reconocido)
reconocer_enviar ==
    /\ \/ reconocimiento.pc = "mano"
       \/ reconocimiento.pc = "voz" /\ ~iniciado
    /\ IF conectada /\ Len(enviados) < MaxSerie
       THEN enviar_mensaje
       ELSE UNCHANGED vars_serie
    /\ reconocimiento' = [reconocimiento EXCEPT !.pc = "fin"]
    /\ UNCHANGED vars_voz

(***************************************************************************)
(* History variables.  They record what the calls did and are read by no   *)
(* call.                                                                   *)
(***************************************************************************)
\* This step is a call of dibujar_punto / borrar_punto that opened a stroke.
AbreTrazo ==
    /\ ultima'.op \in {"dibujar_punto", "borrar_punto"}
    /\ ~dibujando
    /\ dibujando'

\* rama: once a stroke was opened, "nueva" (no record lay beyond the cursor),
\* "truncada" (records lay beyond it after a deshacer) or "recortada" (records
\* lay beyond it otherwise); "deshecha" once deshacer moved the cursor; "cargada"
\* once cargar_sesion replaced the log or the cursor of an opened stroke.
Abiertas == {"nueva", "truncada", "recortada"}

NuevaRama ==
    IF AbreTrazo
        THEN IF historial_index >= Len(historial_trazos) - 1 THEN "nueva"
             ELSE IF rama = "deshecha" THEN "truncada" ELSE "recortada"
    ELSE IF ultima'.op = "deshacer" /\ ultima'.ret # "False" THEN "deshecha"
    ELSE IF /\ ultima'.op = "cargar_sesion"
            /\ rama \in Abiertas
            /\ <<historial_trazos', historial_index'>> # <<historial_trazos, historial_index>>
        THEN "cargada"
    ELSE rama

\* The bookkeeping of the bounded exploration of every call.
Quedan == pasos < MaxPasos

Seguir ==
    /\ SinAutosave
    /\ SinGestos
    /\ SinVoz
    /\ pasos' = pasos + 1
    /\ rama' = NuevaRama
    /\ lienzo_previo' = IF ultima'.op = "deshacer" THEN dibujo ELSE Blanco
    /\ UNCHANGED escenario

\* escenario = <<n, d>>: since the manager was cleared, n strokes were opened,
\* extended and closed, and then deshacer was called d times; Fuera once any
\* other call intervened.
Fuera == <<-1, 0>>

NuevoEscenario ==
    LET n  == escenario[1]
        d  == escenario[2]
        op == ultima'.op
        propio == Len(historial_trazos) = n + 1 /\ historial_index = n
    IN  IF op = "limpiar_dibujo" THEN <<0, 0>>
        ELSE IF escenario = Fuera THEN Fuera
        ELSE IF op \in {"dibujar_punto", "borrar_punto"}
            THEN IF UNCHANGED estado \/ ultima'.ret = "excepcion"
                    THEN IF UNCHANGED <<dibujo, historial_trazos, puntos_dibujo>>
                         THEN escenario ELSE Fuera
                 ELSE IF d > 0 THEN Fuera
                 ELSE IF AbreTrazo THEN escenario
                 ELSE IF propio THEN escenario ELSE Fuera
        ELSE IF op = "terminar_dibujo"
            THEN IF dibujando /\ propio
                    THEN IF d = 0 /\ Len(historial_trazos[n + 1].puntos) >= 2
                         THEN <<n + 1, 0>> ELSE Fuera
                 ELSE escenario
        ELSE IF op = "deshacer"
            THEN IF Len(historial_trazos) = n /\ d <= n THEN <<n, d + 1>> ELSE Fuera
        ELSE IF op = "cargar_dibujo" /\ ultima'.ret = "False" THEN escenario
        ELSE Fuera

SeguirEscenario ==
    /\ SinAutosave
    /\ SinGestos
    /\ SinVoz
    /\ escenario' = NuevoEscenario
    /\ UNCHANGED <<pasos, rama, lienzo_previo>>

(***************************************************************************)
(* Spec: every call a client of DibujoManager can make, in any order, to a *)
(* depth of MaxPasos calls.                                                *)
(***************************************************************************)
Next ==
    \/ Quedan /\ \E c \in Coordenadas : dibujar_punto(c[1], c[2]) /\ Seguir
    \/ Quedan /\ \E c \in Coordenadas : borrar_punto(c[1], c[2]) /\ Seguir
    \/ Quedan /\ terminar_dibujo /\ Seguir
    \/ Quedan /\ limpiar_dibujo /\ Seguir
    \/ Quedan /\ \E color \in Colores : cambiar_color(color) /\ Seguir
    \/ Quedan /\ \E grosor \in Grosores : cambiar_grosor(grosor) /\ Seguir
    \/ Quedan /\ \E radio \in Radios : cambiar_radio_borrador(radio) /\ Seguir
    \/ Quedan /\ deshacer /\ Seguir
    \/ Quedan /\ rehacer /\ Seguir
    \/ Quedan /\ \E legible \in BOOLEAN, img \in Imagenes : cargar_dibujo(legible, img) /\ Seguir
    \/ Quedan /\ \E fallo \in {"no", "abrir", "escribir"} : guardar_sesion(fallo) /\ Seguir
    \/ Quedan /\ \E ruta \in Rutas : cargar_sesion(ruta) /\ Seguir

Spec == Init /\ [][Next]_vars

(***************************************************************************)
(* SpecTrazos: the stroke operations and the image load (no style change,  *)
(* no session file), to any depth within MaxTrazos and MaxPuntos.          *)
(***************************************************************************)
NextTrazos ==
    \/ \E c \in Coordenadas : dibujar_punto(c[1], c[2]) /\ SeguirEscenario
    \/ \E c \in Coordenadas : borrar_punto(c[1], c[2]) /\ SeguirEscenario
    \/ terminar_dibujo /\ SeguirEscenario
    \/ limpiar_dibujo /\ SeguirEscenario
    \/ deshacer /\ SeguirEscenario
    \/ rehacer /\ SeguirEscenario
    \/ \E legible \in BOOLEAN, img \in Imagenes : cargar_dibujo(legible, img) /\ SeguirEscenario

SpecTrazos == Init /\ [][NextTrazos]_vars

(***************************************************************************)
(* SpecAutosave: strokes drawn while time passes, over a sessions          *)
(* directory that earlier runs may have left autosave files in.            *)
(***************************************************************************)
\* Autosave files of earlier runs (their timestamps lie before this run's).
Previos == {{}, -3 .. -1, -5 .. -1, -7 .. -1}

InitAutosave ==
    /\ dibujo = Blanco
    /\ historial_trazos = <<>>
    /\ historial_index = -1
    /\ puntos_dibujo = <<>>
    /\ dibujando = FALSE
    /\ color_dibujo = 1
    /\ grosor_linea = 1
    /\ radio_borrador = 1
    /\ archivo_sesion = [estado |-> "ausente"]
    /\ ultima = Retorno("init", "None")
    /\ pasos = 0
    /\ rama = "inicio"
    /\ lienzo_previo = Blanco
    /\ escenario = <<0, 0>>
    /\ reloj = 0
    /\ ultimo_autosave = 0
    /\ autosaves \in Previos
    /\ autoguardado = "no"
    /\ InitGestos
    /\ InitVoz

\* Tenths of a second that pass between two calls.
Avances == {300, 610}

Avanzar(d) ==
    /\ reloj + d <= MaxReloj
    /\ reloj' = reloj + d
    /\ UNCHANGED <<estado, ultimo_autosave, autosaves, autoguardado>>

\* The histories of the stroke log and the voice engine: these calls touch neither.
SinHistoria == UNCHANGED <<pasos, rama, lienzo_previo, escenario>> /\ SinVoz

NextAutosave ==
    \/ \E d \in Avances : Avanzar(d) /\ SinHistoria /\ SinGestos
    \/ \E x \in {-1, 0} : dibujar_punto(x, 0) /\ SinHistoria /\ SinGestos
    \/ terminar_dibujo /\ SinAutosave /\ SinHistoria /\ SinGestos
    \/ limpiar_dibujo /\ SinAutosave /\ SinHistoria /\ SinGestos

SpecAutosave == InitAutosave /\ [][NextAutosave]_vars

(***************************************************************************)
(* SpecGestos: frames with every finger vector, over the canvas and the    *)
(* buttons Dibujar, Borrar and Limpiar, and the button actions they        *)
(* trigger, until MaxDecimas of pauses have passed.                        *)
(***************************************************************************)
\* Where the index fingertip is: on the canvas, on Limpiar (which lies on the
\* canvas), on Dibujar, on Borrar.
PosicionesGestos == {<<0, 0>>, <<2, 0>>, <<0, 1>>, <<2, 1>>}

\* A faulty variant: a frame without a hand drops the mode.
SinManoReinicia ==
    /\ pc = "frame"
    /\ modo_actual' = "None"
    /\ cuadro' = [mano |-> FALSE, dedos |-> Puno, llamada |-> "ninguna"]
    /\ UNCHANGED <<estado, vars_autosave, ejecutando, pc, pendiente, accion,
                   botones, consulta>>

\* A frame in which the tracker found no hand.
SinMano == _procesar_gestos(FALSE, Puno, 0, 0)

NextGestos ==
    \/ SinMano /\ SinHistoria
    \/ \E dedos \in Dedos, c \in PosicionesGestos :
           _procesar_gestos(TRUE, dedos, c[1], c[2]) /\ SinHistoria
    \/ \E d \in Pausas : AccionDeBoton(d) /\ SinHistoria

SpecGestos == Init /\ [][NextGestos]_vars

(***************************************************************************)
(* SpecBotonera: frames with one finger vector of each kind, over the      *)
(* canvas and every button, and the button actions they trigger.           *)
(***************************************************************************)
\* Closed fist, index, thumb and index, thumb, index and middle, open hand.
Vector(levantados) == [i \in 1 .. 5 |-> i \in levantados]

DedosTipicos == {Vector({}), Vector({2}), Vector({1, 2}), Vector({1}),
                 Vector({2, 3}), Vector(1 .. 5)}

\* Where the index fingertip is: on the canvas, on each button, off both.
Posiciones == {<<0, 0>>, <<1, 0>>, <<2, 0>>, <<0, 1>>, <<2, 1>>,
               <<0, -1>>, <<2, -1>>, <<3, -1>>, <<-1, 0>>}

NextBotonera ==
    \/ SinMano /\ SinHistoria
    \/ \E dedos \in DedosTipicos, c \in Posiciones :
           _procesar_gestos(TRUE, dedos, c[1], c[2]) /\ SinHistoria
    \/ \E d \in Pausas : AccionDeBoton(d) /\ SinHistoria

SpecBotonera == Init /\ [][NextBotonera]_vars

(***************************************************************************)
(* SpecPuno: a closed fist on and off the Guardar button while time        *)
(* passes.                                                                 *)
(***************************************************************************)
NextPuno ==
    \/ SinMano /\ SinHistoria
    \/ \E c \in {<<0, -1>>, <<-1, 0>>} :
           _procesar_gestos(TRUE, Puno, c[1], c[2]) /\ SinHistoria
    \/ \E d \in Pausas : AccionDeBoton(d) /\ SinHistoria
    \/ PasaTiempo /\ SinHistoria

SpecPuno == Init /\ [][NextPuno]_vars

(***************************************************************************)
(* SpecConsulta: the hit test called with any point on any small button    *)
(* table.                                                                  *)
(***************************************************************************)
\* Buttons a table can hold: three names, three columns of one row.
Candidatos == {Boton(t, bx, 0) : t \in {"Dibujar", "Borrar", "Guardar"}, bx \in 0 .. 2}

\* The tables of up to MaxBotones buttons; a dict holds each name once.
Tablas ==
    {t \in UNION {[1 .. n -> Candidatos] : n \in 0 .. MaxBotones} :
        \A i, j \in 1 .. Len(t) : t[i].texto = t[j].texto => i = j}

InitConsulta ==
    /\ dibujo = Blanco
    /\ historial_trazos = <<>>
    /\ historial_index = -1
    /\ puntos_dibujo = <<>>
    /\ dibujando = FALSE
    /\ color_dibujo = 1
    /\ grosor_linea = 1
    /\ radio_borrador = 1
    /\ archivo_sesion = [estado |-> "ausente"]
    /\ ultima = Retorno("init", "None")
    /\ pasos = 0
    /\ rama = "inicio"
    /\ lienzo_previo = Blanco
    /\ escenario = <<0, 0>>
    /\ reloj = 0
    /\ ultimo_autosave = 0
    /\ autosaves = {}
    /\ autoguardado = "no"
    /\ modo_actual = "None"
    /\ ejecutando = TRUE
    /\ pc = "frame"
    /\ pendiente = "None"
    /\ cuadro = [mano |-> FALSE, dedos |-> Puno, llamada |-> "ninguna"]
    /\ accion = [boton |-> "None", hora |-> 0]
    /\ botones \in Tablas
    /\ consulta = [hecha |-> FALSE, x |-> 0, y |-> 0, ret |-> "None"]
    /\ InitVoz

NextConsulta ==
    \E x \in -1 .. 4, y \in -1 .. 1 : ConsultarBoton(x, y) /\ SinHistoria

SpecConsulta == InitConsulta /\ [][NextConsulta]_vars

(***************************************************************************)
(* The voice engine by itself: producers calling hablar, hablar_sincrono,  *)
(* detener and cambiar_motor from their threads, interleaved with the      *)
(* steps of the worker threads.                                            *)
(***************************************************************************)
SinResto == UNCHANGED <<estado, pasos, rama, lienzo_previo, escenario,
                        vars_autosave, vars_gestos, vars_serie, vars_cierre, vars_ocr>>

SinProsodia == UNCHANGED vars_prosodia

\* The calls that touch the queue, the workers and the backend only.
SoloVoz == SinResto /\ SinProsodia

NextVoz ==
    \/ \E prioridad \in BOOLEAN :
           Len(pedidos) < MaxVoz /\ hablar(prioridad) /\ SoloVoz
    \/ Len(pedidos) < MaxVoz /\ hablar_sincrono /\ SoloVoz
    \/ hablar_sincrono_fin /\ SoloVoz
    \/ detener /\ SoloVoz
    \/ \E m \in Solicitados : cambiar_motor(m) /\ SoloVoz
    \/ \E guardado \in BOOLEAN, r, r2 \in {"ok", "fallback", "falla"} :
           cambiar_motor_arranque(guardado, r, r2) /\ SoloVoz
    \/ \E h \in Hilos : Trabajar(h, {}) /\ SoloVoz

SpecVoz == Init /\ [][NextVoz]_vars

(***************************************************************************)
(* The priority scenario: hablar("A"), hablar("B"), hablar("C", True) in   *)
(* this order on a started engine, and nothing else but the workers.  The  *)
(* engine was started once (one worker) or switched before (a worker of    *)
(* the earlier start may still be in its loop).                            *)
(***************************************************************************)
InitPrioridad ==
    /\ dibujo = Blanco
    /\ historial_trazos = <<>>
    /\ historial_index = -1
    /\ puntos_dibujo = <<>>
    /\ dibujando = FALSE
    /\ color_dibujo = 1
    /\ grosor_linea = 1
    /\ radio_borrador = 1
    /\ archivo_sesion = [estado |-> "ausente"]
    /\ ultima = Retorno("init", "None")
    /\ pasos = 0
    /\ rama = "inicio"
    /\ lienzo_previo = Blanco
    /\ escenario = <<0, 0>>
    /\ reloj = 0
    /\ ultimo_autosave = 0
    /\ autosaves = {}
    /\ autoguardado = "no"
    /\ InitGestos
    /\ cola_mensajes = <<>>
    /\ hablando = FALSE
    /\ iniciado = TRUE
    /\ motor_actual \in {"pyttsx3", "google_tts"}
    /\ config_motor = motor_actual
    /\ archivo_config = motor_actual
    /\ nativos = {motor_actual}
    /\ \E n \in 1 .. MaxHilos :
           hilos = [h \in Hilos |-> IF h <= n THEN [pc |-> "bucle", texto |-> "None"]
                                              ELSE [pc |-> "no", texto |-> "None"]]
    /\ sincrono = "None"
    /\ cambio = [fase |-> "no", nuevo |-> "None", previo |-> "None", corria |-> FALSE]
    /\ hablado = <<>>
    /\ sacados = <<>>
    /\ intentos = <<>>
    /\ pedidos = <<>>
    /\ ultima_voz = [op |-> "init", ret |-> "None", arranque |-> "None"]
    /\ InitProsodia
    /\ InitSerie
    /\ InitCierre
    /\ InitOCR

\* The next call of the scenario: the third one is the priority message.
Guion ==
    /\ Len(pedidos) < 3
    /\ hablar(Len(pedidos) = 2)

NextPrioridad ==
    \/ Guion /\ SoloVoz
    \/ \E h \in Hilos : Trabajar(h, {}) /\ SoloVoz

SpecPrioridad == InitPrioridad /\ [][NextPrioridad]_vars

(***************************************************************************)
(* The facade's life cycle: iniciar, cambiar_motor with any backend name,  *)
(* detener and cerrar, interleaved with the workers.                       *)
(***************************************************************************)
NextFachada ==
    \/ \E r \in {"ok", "fallback", "falla"} : iniciar(r) /\ SoloVoz
    \/ \E m \in MotorVoz \cup {"otro"} : cambiar_motor(m) /\ SoloVoz
    \/ \E guardado \in BOOLEAN, r, r2 \in {"ok", "fallback", "falla"} :
           cambiar_motor_arranque(guardado, r, r2) /\ SoloVoz
    \/ detener /\ SoloVoz
    \/ \E guardado \in BOOLEAN : cerrar_voz(guardado) /\ SoloVoz
    \/ \E h \in Hilos : Trabajar(h, {}) /\ SoloVoz

SpecFachada == Init /\ [][NextFachada]_vars

(***************************************************************************)
(* Synthesis failures: an engine started on a cloud backend, with the      *)
(* native clients earlier starts left behind, speaking queued messages     *)
(* while the environment lets the API calls of some backends fail.         *)
(***************************************************************************)
InitRespaldo ==
    /\ dibujo = Blanco
    /\ historial_trazos = <<>>
    /\ historial_index = -1
    /\ puntos_dibujo = <<>>
    /\ dibujando = FALSE
    /\ color_dibujo = 1
    /\ grosor_linea = 1
    /\ radio_borrador = 1
    /\ archivo_sesion = [estado |-> "ausente"]
    /\ ultima = Retorno("init", "None")
    /\ pasos = 0
    /\ rama = "inicio"
    /\ lienzo_previo = Blanco
    /\ escenario = <<0, 0>>
    /\ reloj = 0
    /\ ultimo_autosave = 0
    /\ autosaves = {}
    /\ autoguardado = "no"
    /\ InitGestos
    /\ cola_mensajes = <<>>
    /\ hablando = FALSE
    /\ iniciado = TRUE
    /\ motor_actual \in Nube
    /\ config_motor = motor_actual
    /\ archivo_config = motor_actual
    /\ nativos \in {n \in SUBSET {"pyttsx3", "google_tts", "azure_tts"} :
                        motor_actual \in n}
    /\ hilos = [h \in Hilos |-> IF h = 1 THEN [pc |-> "bucle", texto |-> "None"]
                                         ELSE [pc |-> "no", texto |-> "None"]]
    /\ sincrono = "None"
    /\ cambio = [fase |-> "no", nuevo |-> "None", previo |-> "None", corria |-> FALSE]
    /\ hablado = <<>>
    /\ sacados = <<>>
    /\ intentos = <<>>
    /\ pedidos = <<>>
    /\ ultima_voz = [op |-> "init", ret |-> "None", arranque |-> "None"]
    /\ InitProsodia
    /\ InitSerie
    /\ InitCierre
    /\ InitOCR

NextRespaldo ==
    \/ \E prioridad \in BOOLEAN : hablar(prioridad) /\ SoloVoz
    \/ \E h \in Hilos, fallos \in SUBSET Nube : Trabajar(h, fallos) /\ SoloVoz

SpecRespaldo == InitRespaldo /\ [][NextRespaldo]_vars

(***************************************************************************)
(* The prosody setters, called directly with values inside, on and beyond  *)
(* the limits, and through hablar_con_emocion.                             *)
(***************************************************************************)
Velocidades == {499, 500, 2000, 2001}

Volumenes == {-1, 0, 1000, 1001}

\* The emotions tried: the slowest, the highest and the neutral one.
Emociones == {"tranquilo", "sorprendido", "neutral"}

Tonos == {-10001, -10000, 10000, 10001}

\* An engine on any backend, running or closed (its worker not yet out of
\* the loop), with the default prosody.
InitAjustes ==
    /\ dibujo = Blanco
    /\ historial_trazos = <<>>
    /\ historial_index = -1
    /\ puntos_dibujo = <<>>
    /\ dibujando = FALSE
    /\ color_dibujo = 1
    /\ grosor_linea = 1
    /\ radio_borrador = 1
    /\ archivo_sesion = [estado |-> "ausente"]
    /\ ultima = Retorno("init", "None")
    /\ pasos = 0
    /\ rama = "inicio"
    /\ lienzo_previo = Blanco
    /\ escenario = <<0, 0>>
    /\ reloj = 0
    /\ ultimo_autosave = 0
    /\ autosaves = {}
    /\ autoguardado = "no"
    /\ InitGestos
    /\ cola_mensajes = <<>>
    /\ hablando = FALSE
    /\ iniciado \in BOOLEAN
    /\ motor_actual \in {"pyttsx3", "google_tts", "azure_tts"}
    /\ config_motor = motor_actual
    /\ archivo_config = motor_actual
    /\ nativos = {motor_actual}
    /\ hilos = [h \in Hilos |-> IF h = 1 THEN [pc |-> "bucle", texto |-> "None"]
                                         ELSE [pc |-> "no", texto |-> "None"]]
    /\ sincrono = "None"
    /\ cambio = [fase |-> "no", nuevo |-> "None", previo |-> "None", corria |-> FALSE]
    /\ hablado = <<>>
    /\ sacados = <<>>
    /\ intentos = <<>>
    /\ pedidos = <<>>
    /\ ultima_voz = [op |-> "init", ret |-> "None", arranque |-> "None"]
    /\ InitProsodia
    /\ InitSerie
    /\ InitCierre
    /\ InitOCR

NextProsodia ==
    \/ \E v \in Velocidades, error, guardado \in BOOLEAN :
           establecer_velocidad(v, error, guardado) /\ SinResto
    \/ \E v \in Volumenes, error, guardado \in BOOLEAN :
           establecer_volumen(v, error, guardado) /\ SinResto
    \/ \E t \in Tonos, guardado \in BOOLEAN :
           establecer_tono(t, guardado) /\ SinResto
    \/ \E emocion \in Emociones, intensidad \in Intensidades,
          error, guardado \in BOOLEAN :
           /\ Len(pedidos) < MaxVoz
           /\ hablar_con_emocion(emocion, intensidad, error, guardado)
           /\ SinResto

SpecProsodia == InitAjustes /\ [][NextProsodia]_vars

\* hablar_con_emocion on the caller's thread and the worker on its own: the
\* worker may step before, inside and after the caller's 0.1 s sleep.
NextEmocion ==
    \/ \E emocion \in Emociones, intensidad \in Intensidades,
          error, guardado \in BOOLEAN :
           /\ Len(pedidos) < MaxVoz
           /\ hablar_con_emocion_try(emocion, intensidad, error, guardado)
           /\ SinResto
    \/ \E error, guardado \in BOOLEAN :
           hablar_con_emocion_finally(error, guardado) /\ SinResto
    \/ \E h \in Hilos : Sintetizar(h) /\ SinResto

SpecEmocion == InitAjustes /\ [][NextEmocion]_vars

(***************************************************************************)
(* The serial link by itself: producers calling enviar_mensaje, the sender *)
(* worker with writes that succeed or fail, and the close.                 *)
(***************************************************************************)
SinSerieResto == UNCHANGED <<estado, pasos, rama, lienzo_previo, escenario,
                             vars_autosave, vars_gestos, vars_voz, vars_prosodia,
                             vars_cierre, vars_ocr>>

NextSerie ==
    \/ enviar_mensaje /\ SinSerieResto
    \/ \E escrito \in BOOLEAN : _procesar_cola_mensajes(escrito) /\ SinSerieResto
    \/ cerrar_mano /\ SinSerieResto

SpecSerie == Init /\ [][NextSerie]_vars

(***************************************************************************)
(* SpecBucle: the main loop with frames, button actions, keys, errors and  *)
(* interrupts, followed by the teardown with steps that work or fail.      *)
(***************************************************************************)
SinBucle == UNCHANGED <<pasos, rama, lienzo_previo, escenario, vars_prosodia, vars_ocr>>

SinVozNiSerie == UNCHANGED <<vars_voz, vars_serie>>

NextBucle ==
    \/ SinMano /\ FinDelCuadro /\ SinBucle /\ SinVozNiSerie
    \/ \E dedos \in {Vector({}), Vector({2})}, c \in {<<0, 0>>, <<0, -1>>, <<2, -1>>} :
           _procesar_gestos(TRUE, dedos, c[1], c[2])
               /\ FinDelCuadro /\ SinBucle /\ SinVozNiSerie
    \/ \E d \in Pausas : AccionDeBoton(d) /\ FinDelCuadro /\ SinBucle /\ SinVozNiSerie
    \/ \E etapa \in EtapasSinProteccion :
           ErrorEnCuadro(etapa) /\ SinBucle /\ SinVozNiSerie
    \/ \E tecla \in Teclas, fallo \in {"no", "abrir", "escribir"} :
           Tecla(tecla, fallo) /\ SinBucle /\ SinVozNiSerie
    \/ Interrupcion /\ SinBucle /\ SinVozNiSerie
    \/ \E activo, falla, guardado \in BOOLEAN, fallo \in {"no", "abrir", "escribir"} :
           cerrar(activo, falla, fallo, guardado) /\ SinBucle

SpecBucle == Init /\ [][NextBucle]_vars

\* The same with the teardown running on: cerrar is called from the finally
\* clause of ejecutar and each of its calls returns or raises.
SpecBucleJusto ==
    SpecBucle /\ WF_vars(\E activo, falla, guardado \in BOOLEAN,
                             fallo \in {"no", "abrir", "escribir"} :
                             cerrar(activo, falla, fallo, guardado) /\ SinBucle)

(***************************************************************************)
(* SpecOCR: the recognition thread on every short OCR result list.         *)
(***************************************************************************)
SinOCR == UNCHANGED <<estado, pasos, rama, lienzo_previo, escenario, vars_autosave,
                      vars_gestos, vars_prosodia, vars_cierre>>

NextOCR ==
    \/ \E resultados \in Resultados : reconocer(resultados) /\ SinOCR
    \/ reconocer_cambio /\ SinOCR
    \/ \E guardado \in BOOLEAN, r, r2 \in {"ok", "fallback", "falla"} :
           reconocer_arranque(guardado, r, r2) /\ SinOCR
    \/ reconocer_hablar /\ SinOCR
    \/ reconocer_enviar /\ SinOCR

SpecOCR == Init /\ [][NextOCR]_vars

(***************************************************************************)
(* Properties.                                                             *)
(***************************************************************************)

\* The canvas is what _reconstruir_dibujo computes from records 0 .. cursor.
LienzoReproducible ==
    LET r == ReconstruirDibujo(historial_trazos, historial_index)
    IN  ~r.error /\ r.img = dibujo

OperacionesLienzo ==
    {"dibujar_punto", "borrar_punto", "terminar_dibujo", "deshacer", "rehacer",
     "limpiar_dibujo", "cambiar_color", "cambiar_grosor", "cambiar_radio_borrador"}

\* C1: reconstruction invariant.  The canvas equals the replay of records
\* 0 .. historial_index at construction, and every stroke, undo/redo, clear and
\* style operation that starts from such a state ends in such a state.
InvarianteReconstruccion ==
    [][(LienzoReproducible /\ ultima'.op \in OperacionesLienzo)
           => LienzoReproducible']_vars

\* C2: undo/redo inverse law.  A rehacer() that follows a successful deshacer()
\* restores the canvas and the cursor that held before the deshacer(), and the
\* log is the same.
InversaDeshacerRehacer ==
    [][(ultima = Retorno("deshacer", "True") /\ ultima'.op = "rehacer")
           => /\ dibujo' = lienzo_previo
              /\ historial_index' = historial_index + 1
              /\ historial_trazos' = historial_trazos]_vars

\* C3: undo boundary.  deshacer() with the cursor at -1 returns False and leaves
\* the canvas, the log, the cursor and the stroke-open flag as they were.
LimiteDeshacer ==
    [][(ultima'.op = "deshacer" /\ historial_index = -1)
           => /\ ultima'.ret = "False"
              /\ UNCHANGED <<dibujo, historial_trazos, historial_index, dibujando>>]_vars

\* A deshacer() refused at the boundary while the log still holds undone records.
TestigoLimiteDeshacer ==
    /\ ultima = Retorno("deshacer", "False")
    /\ historial_index = -1
    /\ historial_trazos # <<>>

\* Opening a stroke keeps records 0 .. cursor, drops the rest, and appends one
\* record, of the kind of the call, with the cursor on it.
Truncamiento ==
    AbreTrazo =>
        /\ Len(historial_trazos') = Len(Hasta(historial_trazos, historial_index + 1)) + 1
        /\ Hasta(historial_trazos', Len(historial_trazos') - 1)
               = Hasta(historial_trazos, historial_index + 1)
        /\ historial_index' = Len(historial_trazos') - 1
        /\ historial_trazos'[Len(historial_trazos')].tipo
               = (IF ultima'.op = "dibujar_punto" THEN "trazo" ELSE "borrado")

DeshacerTodo ==
    (escenario # Fuera /\ escenario[2] >= 1 /\ ultima.op = "deshacer") =>
        /\ escenario[2] <= escenario[1] => ultima.ret = "True"
        /\ escenario[2] >= escenario[1] => (historial_index = -1 /\ dibujo = Blanco)
        /\ escenario[2] = escenario[1] + 1 => ultima.ret = "False"

\* Two strokes were committed and undone, and a third deshacer() was refused.
TestigoDeshacerTodo ==
    /\ escenario = <<2, 3>>
    /\ ultima = Retorno("deshacer", "False")

\* C6: cursor range.  Through draw, erase, end-stroke, undo, redo, clear and
\* image load, -1 <= historial_index <= len(historial_trazos) - 1.
RangoCursor ==
    /\ -1 <= historial_index
    /\ historial_index <= Len(historial_trazos) - 1

\* Both ends of the range met: a full log with every record undone.
TestigoRangoCursor ==
    /\ historial_index = -1
    /\ Len(historial_trazos) = MaxTrazos
    /\ ultima = Retorno("deshacer", "True")

\* C7: redo boundary.  rehacer() with the cursor on the last record returns
\* False and leaves canvas, log and cursor; anywhere else it moves the cursor
\* up by exactly one and the canvas becomes the replay of records 0 .. cursor.
LimiteRehacer ==
    [][ultima'.op = "rehacer" =>
           IF historial_index = Len(historial_trazos) - 1
           THEN /\ ultima'.ret = "False"
                /\ UNCHANGED <<dibujo, historial_trazos, historial_index>>
           ELSE /\ historial_index' = historial_index + 1
                /\ historial_trazos' = historial_trazos
                /\ dibujo' = ReconstruirDibujo(historial_trazos, historial_index').img]_vars

Despejado ==
    /\ dibujo = Blanco
    /\ historial_trazos = <<>>
    /\ historial_index = -1

\* C8: clear is irreversible.  After limpiar_dibujo() the canvas is blank, the
\* log empty and the cursor -1, and deshacer() and rehacer() called in that
\* state return False and leave it.
LimpiarIrreversible ==
    /\ [](ultima.op = "limpiar_dibujo" => Despejado)
    /\ [][(Despejado /\ ultima'.op \in {"deshacer", "rehacer"})
              => (ultima'.ret = "False" /\ Despejado')]_vars

\* A stroke was being drawn when the manager was cleared (its buffer is still
\* there), and a rehacer() after the clear was refused.
TestigoLimpiar ==
    /\ Despejado
    /\ puntos_dibujo # <<>>
    /\ ultima = Retorno("rehacer", "False")

\* C9: atomic session load.  Whenever cargar_sesion returns False, the canvas,
\* the log, the cursor, the colour, the line width and the eraser radius keep
\* the values they had before the call.
CargaAtomica ==
    [][(ultima'.op = "cargar_sesion" /\ ultima'.ret = "False")
           => UNCHANGED <<dibujo, historial_trazos, historial_index,
                          color_dibujo, grosor_linea, radio_borrador>>]_vars

\* The six restored fields, as a tuple.
Restaurables ==
    <<dibujo, historial_trazos, historial_index,
      color_dibujo, grosor_linea, radio_borrador>>

\* What a bundle restores: the raster converted back, the other values as pickled.
Contenido(datos) ==
    <<DeLista(datos.dibujo), datos.historial_trazos, datos.historial_index,
      datos.color_dibujo, datos.grosor_linea, datos.radio_borrador>>

\* C10: session round trip.  The file a successful guardar_sesion writes holds
\* the six values of that moment, no other operation touches the file, and a
\* successful cargar_sesion of it sets the six values to what the file holds.
IdaYVuelta ==
    /\ [][(ultima'.op = "guardar_sesion" /\ ultima'.ret = "ruta")
              => (archivo_sesion'.estado = "ok"
                  /\ Contenido(archivo_sesion'.datos) = Restaurables)]_vars
    /\ [][ultima'.op # "guardar_sesion" => archivo_sesion' = archivo_sesion]_vars
    /\ [][(ultima' = [op |-> "cargar_sesion", ret |-> "True", arg |-> "guardada"])
              => Restaurables' = Contenido(archivo_sesion.datos)]_vars

\* The saved file was loaded back and brought a drawn canvas and its record
\* with it.
TestigoIdaYVuelta ==
    /\ ultima = [op |-> "cargar_sesion", ret |-> "True", arg |-> "guardada"]
    /\ dibujo # Blanco
    /\ historial_index = 0

\* C11: autosave pruning.  After every completed _auto_guardar_sesion the
\* sessions directory holds at most 5 autosave_* files, and they are the 5 most
\* recent of the files that were there and the one just written.
PodaAutosave ==
    [][autoguardado' = "hecho" =>
           /\ Cardinality(autosaves') <= conservados
           /\ autosaves' = Recientes(autosaves \cup {Marca(reloj)}, conservados)]_vars

\* C12: dispatcher rule table.  In every frame with a tracked hand, whatever the
\* mode and the five-finger vector, exactly one stroke call is made: it is
\* dibujar_punto iff the mode is dibujar and the index is raised and none of
\* middle, ring and pinky is; borrar_punto iff the mode is borrar;
\* terminar_dibujo otherwise.
ReglaGestos ==
    [][(pc = "frame" /\ cuadro'.mano) =>
           LET d == cuadro'.dedos
               llamada == cuadro'.llamada
           IN  /\ llamada \in {"dibujar_punto", "borrar_punto", "terminar_dibujo"}
               /\ ultima'.op = llamada
               /\ llamada = "dibujar_punto"
                      <=> (modo_actual = "dibujar" /\ d[2] /\ ~d[3] /\ ~d[4] /\ ~d[5])
               /\ llamada = "borrar_punto" <=> modo_actual = "borrar"]_vars

\* In drawing mode a frame showed index and middle raised, and the stroke was
\* ended instead of drawn.
TestigoReglaGestos ==
    /\ cuadro.mano
    /\ cuadro.dedos = Vector({2, 3})
    /\ cuadro.llamada = "terminar_dibujo"
    /\ modo_actual = "dibujar"
    /\ historial_trazos # <<>>

\* C13: the mode changes only through button selection.  A step that changes
\* modo_actual is the action of a button; a frame without a button action (any
\* finger vector, any position, hand absent) leaves it.
CambioDeModo ==
    [][modo_actual' # modo_actual =>
           /\ pc = "boton"
           /\ accion'.boton = pendiente
           /\ pendiente \in {"Dibujar", "Borrar", "Limpiar", "Guardar"}]_vars

\* A frame without a hand was seen in erase mode, and the mode stayed.
TestigoCambioDeModo ==
    /\ ~cuadro.mano
    /\ modo_actual = "borrar"
    /\ accion.boton = "Borrar"
    /\ historial_trazos # <<>>

\* This step is the action of the pending button.
PulsaBoton == pc = "boton" /\ pendiente' = "None"

\* C14: button action mapping.  Dibujar and Borrar set the mode and leave the
\* canvas and the log; Limpiar blanks the canvas, empties the log, puts the
\* cursor at -1 and sets the mode to None; Salir clears ejecutando; no button
\* but Limpiar changes the canvas or the log.
MapaDeBotones ==
    [][PulsaBoton =>
           /\ pendiente = "Dibujar" => modo_actual' = "dibujar"
           /\ pendiente = "Borrar" => modo_actual' = "borrar"
           /\ pendiente = "Limpiar" =>
                  /\ dibujo' = Blanco
                  /\ historial_trazos' = <<>>
                  /\ historial_index' = -1
                  /\ modo_actual' = "None"
           /\ pendiente = "Salir" => ejecutando' = FALSE
           /\ pendiente # "Limpiar" =>
                  UNCHANGED <<dibujo, historial_trazos, historial_index>>]_vars

\* Limpiar was selected in erase mode: the frame erased at the button, and the
\* action cleared the log and dropped the mode.
TestigoMapaDeBotones ==
    /\ accion.boton = "Limpiar"
    /\ cuadro.llamada = "borrar_punto"
    /\ modo_actual = "None"
    /\ historial_trazos = <<>>
    /\ dibujando

\* C15: fist cooldown.  Two consecutive button actions are at least 0.5 s
\* apart, and no frame is processed within 0.5 s of a button action, however
\* long the fist stays on the Guardar button.
Enfriamiento ==
    /\ []((pc = "frame" /\ accion.boton # "None") => reloj - accion.hora >= pausa)
    /\ [][(PulsaBoton /\ accion.boton # "None")
              => accion'.hora - accion.hora >= pausa]_vars

\* Guardar fired, and the first frame after the pause finds the fist on it again.
TestigoEnfriamiento ==
    /\ accion.boton = "Guardar"
    /\ pc = "boton"
    /\ pendiente = "Guardar"
    /\ reloj = accion.hora + pausa

\* The entries of the table whose rectangle contains the point of the last hit test.
Aciertos ==
    {i \in 1 .. Len(botones) :
        /\ botones[i].pos[1] <= consulta.x
        /\ consulta.x <= botones[i].pos[1] + dimensiones_boton.ancho
        /\ botones[i].pos[2] <= consulta.y
        /\ consulta.y <= botones[i].pos[2] + dimensiones_boton.alto}

\* C16: button hit-testing.  verificar_punto_en_boton(x, y) returns the first
\* button, in insertion order, whose rectangle [bx, bx+ancho] x [by, by+alto]
\* contains (x, y), and None iff no rectangle contains it.
PrimerAcierto ==
    consulta.hecha =>
        /\ consulta.ret = "None" <=> Aciertos = {}
        /\ Aciertos # {} =>
               \E i \in Aciertos : /\ \A j \in Aciertos : i <= j
                                    /\ consulta.ret = botones[i].texto

\* The point lay in two rectangles and the earlier-inserted button was returned.
TestigoPrimerAcierto ==
    /\ consulta.hecha
    /\ Cardinality(Aciertos) >= 2
    /\ consulta.ret = botones[1].texto
    /\ 1 \in Aciertos

\* Text t occurs in the sequence s.
EnSecuencia(s, t) == \E i \in 1 .. Len(s) : s[i] = t

\* If b occurs in s then a occurs in s before it.
Precede(s, a, b) ==
    \A j \in 1 .. Len(s) : s[j] = b => \E i \in 1 .. j - 1 : s[i] = a

\* s is an initial part of t.
Prefijo(s, t) == Len(s) <= Len(t) /\ \A i \in 1 .. Len(s) : s[i] = t[i]

\* C17 as stated: priority scenario.  Once the three messages of hablar("A"),
\* hablar("B"), hablar("C", prioridad=True) have been spoken, they were spoken
\* in the order C, A, B.
OrdenPrioridadOriginal ==
    Len(hablado) = 3 => hablado = <<"C", "A", "B">>

\* C17: priority scenario, as the code behaves.  The workers take A before B;
\* they take C before every message that was still queued when
\* hablar("C", prioridad=True) inserted it; with both A and B still queued at
\* that moment the order taken is C, A, B; and an engine with a single worker
\* speaks the messages in the order it took them.
OrdenPrioridad ==
    /\ Precede(sacados, "A", "B")
    /\ Len(pedidos) = 3 =>
           /\ \A i \in 1 .. Len(pedidos[3].antes) :
                  Precede(sacados, "C", pedidos[3].antes[i])
           /\ Len(pedidos[3].antes) = 2 /\ Len(sacados) = 3 =>
                  sacados = <<"C", "A", "B">>
    /\ Cardinality(Vivos) = 1 => Prefijo(hablado, sacados)

\* The priority message arrived with both others still queued, and all three
\* have been spoken, C first.
TestigoOrdenPrioridad ==
    /\ Len(pedidos) = 3
    /\ Len(pedidos[3].antes) = 2
    /\ hablado = <<"C", "A", "B">>

\* C18: FIFO within a priority class.  Two messages accepted by hablar() with
\* the same priority value, both spoken, were spoken in the order of their
\* hablar() calls.
FIFOPorClase ==
    \A i, j \in 1 .. Len(pedidos) :
        /\ i < j
        /\ pedidos[i].via = "cola" /\ pedidos[j].via = "cola"
        /\ pedidos[i].prioridad = pedidos[j].prioridad
        /\ EnSecuencia(hablado, pedidos[i].texto)
        /\ EnSecuencia(hablado, pedidos[j].texto)
        => Precede(hablado, pedidos[i].texto, pedidos[j].texto)

\* C19: speech mutual exclusion.  At most one thread is inside a _hablar_*
\* call at any time.
ExclusionDeHabla == Cardinality(EnSintesis) <= 1

\* C20: engine-switch rollback.  When cambiar_motor returns after the start of
\* the new backend failed, and a backend p was running when it was called, the
\* configuration in memory and the configuration file name p, p is running,
\* and the call returned False.
RetrocesoDeMotor ==
    [][ (/\ cambio.fase = "parado"
         /\ cambio'.fase = "no"
         /\ ultima_voz'.arranque = "falla"
         /\ cambio.corria)
        => (/\ config_motor' = cambio.previo
            /\ archivo_config' = cambio.previo
            /\ iniciado'
            /\ motor_actual' = cambio.previo
            /\ ultima_voz'.ret = "False") ]_vars

\* C21: facade liveness.  Whenever iniciado is True a backend is live:
\* motor_actual is set, the native engine / client of that backend was
\* created, and a worker thread is in its loop.
FachadaViva ==
    iniciado => /\ motor_actual # "None"
                /\ motor_actual \in nativos
                /\ Vivos # {}

\* C22: an engine switch does not fail callers.  When a cambiar_motor call
\* returns True, the last call made on the engine while it was executing was
\* not a hablar() that returned False.
CambioNoRechaza ==
    [][ (/\ cambio.fase = "parado"
         /\ cambio'.fase = "no"
         /\ ultima_voz'.ret = "True")
        => ~(ultima_voz.op = "hablar" /\ ultima_voz.ret = "False") ]_vars

\* C23: fallback does not drop the utterance.  An utterance whose synthesis
\* failed on the cloud backend the engine runs, while the secondary cloud
\* backend accepts requests, was spoken through the secondary backend.
RespaldoNoDescarta ==
    \A i \in 1 .. Len(intentos) :
        (/\ intentos[i].motor \in Nube
         /\ intentos[i].pasos[1].resultado = "fallo"
         /\ Secundario(intentos[i].motor) \notin intentos[i].fallos)
        => \E k \in 2 .. Len(intentos[i].pasos) :
               intentos[i].pasos[k] = Paso(Secundario(intentos[i].motor), "dicho")

\* C24: fallback is one-shot.  The step in which a worker sends an utterance
\* through its backend, with or without fallback, leaves motor_actual,
\* config['motor'] and the configuration file as they were, and the first
\* backend tried for the utterance is the one motor_actual names.
RespaldoDeUnaVez ==
    [][ intentos' # intentos
        => /\ motor_actual' = motor_actual
           /\ config_motor' = config_motor
           /\ archivo_config' = archivo_config
           /\ intentos'[Len(intentos')].pasos[1].motor = motor_actual ]_vars

\* An utterance fell back from Azure to Google and was spoken there, and the
\* utterance after it was tried on Azure again.
TestigoRespaldoDeUnaVez ==
    /\ Len(intentos) >= 2
    /\ intentos[1].pasos = <<Paso("azure_tts", "fallo"), Paso("google_tts", "dicho")>>
    /\ intentos[2].pasos[1].motor = "azure_tts"
    /\ motor_actual = "azure_tts"
    /\ config_motor = "azure_tts"

\* The ranges of the three prosody parameters, in thousandths.
Intervalos ==
    [velocidad |-> [min |-> 500, max |-> 2000],
     tono      |-> [min |-> -10000, max |-> 10000],
     volumen   |-> [min |-> 0, max |-> 1000]]

Dentro(campo, valor) ==
    Intervalos[campo].min <= valor /\ valor <= Intervalos[campo].max

\* C25: prosody range.  Every establecer_velocidad / establecer_tono /
\* establecer_volumen call with a value outside its range returned False and
\* left the configuration as it was, and the configured velocidad, tono and
\* volumen are inside their ranges.
RangoProsodia ==
    /\ \A i \in 1 .. Len(ajustes) :
           ~Dentro(ajustes[i].op, ajustes[i].valor)
           => ajustes[i].ret = "False" /\ ajustes[i].despues = ajustes[i].antes
    /\ \A campo \in {"velocidad", "tono", "volumen"} : Dentro(campo, prosodia[campo])

\* hablar_con_emocion asked for a speed below the range (tranquilo at the
\* lowest intensity on google_tts: 0.45), which was refused, after a direct
\* setter call had moved the speed to a limit of the range.
TestigoRangoProsodia ==
    /\ Len(ajustes) = 4
    /\ ajustes[1].op = "velocidad"
    /\ ajustes[1].valor = 450
    /\ ajustes[1].ret = "False"
    /\ ajustes[3].ret = "True"
    /\ prosodia.velocidad = 2000

\* C29: serial ordering.  The messages written to the port are messages
\* enviar_mensaje accepted, each written at most once, in the order in which
\* they were enqueued.
OrdenSerie ==
    /\ \A i \in 1 .. Len(escritos) : \E k \in 1 .. Len(enviados) : escritos[i] = enviados[k]
    /\ \A i, j \in 1 .. Len(escritos) : i < j => escritos[i] < escritos[j]

\* Three messages were accepted and all three were written.
TestigoOrdenSerie == Len(enviados) = 3 /\ escritos = <<1, 2, 3>>

\* C30: serial write retry.  No accepted message is lost: each one has been
\* written, or is still in the queue, or is in the worker's hands.
SerieSinPerdida ==
    \A k \in 1 .. Len(enviados) :
        \/ \E i \in 1 .. Len(escritos) : escritos[i] = enviados[k]
        \/ \E i \in 1 .. Len(cola_mano) : cola_mano[i] = enviados[k]
        \/ hilo_envio.mensaje = enviados[k]

\* C26: per-frame fault isolation.  The main loop has ended only because of
\* the Salir action, a quit key or an external interrupt: an error raised
\* while a frame was processed never ends it.
SoloFinesPrevistos ==
    pc = "cerrado" => fin \in {"salir", "tecla", "interrupcion"}

\* C27: shutdown order.  When the teardown runs the main-loop flag is
\* cleared; the speech worker is joined before the serial worker; the serial
\* port is closed and the speech engine stopped only after both joins.
UnionDeVoz(e) == e.paso = "voice_engine" /\ e.evento = "join"

UnionDeSerie(e) == e.paso = "mano_robotica" /\ e.evento = "join"

Liberacion(e) ==
    \/ e.paso = "mano_robotica" /\ e.evento = "close"
    \/ e.paso = "voice_engine" /\ e.evento = "stop"

OrdenDeCierre ==
    /\ cierre # <<>> => ~ejecutando
    /\ \A i, j \in 1 .. Len(cierre) :
           UnionDeVoz(cierre[i]) /\ UnionDeSerie(cierre[j]) => i < j
    /\ \A i \in 1 .. Len(cierre) :
           Liberacion(cierre[i]) =>
               /\ \E j \in 1 .. i - 1 : UnionDeVoz(cierre[j])
               /\ \E j \in 1 .. i - 1 : UnionDeSerie(cierre[j])

\* C28: best-effort shutdown.  Once SistemaInteractivo.cerrar is over, every
\* one of its teardown steps was reached, whichever steps failed.
CierreCompleto ==
    Terminado =>
        \A p \in 1 .. Len(PasosDeCierre) :
            \E i \in 1 .. Len(cierre) : cierre[i].paso = PasosDeCierre[p]

\* C31: OCR confidence filter.  The text the recognition thread logs,
\* narrates and forwards is the join, in detection order, of exactly the
\* result texts whose confidence is greater than 0.5 (an empty text is no
\* text).
Confiable(r) == r.prob > 500 /\ r.texto # ""

FiltroDeConfianza ==
    reconocimiento.pc # "no" =>
        reconocimiento.texto =
            Unir(TextosDe(SelectSeq(reconocimiento.resultados, Confiable)))

\* C32: out-of-bounds points are no-ops.  A dibujar_punto or borrar_punto
\* call with a point outside the canvas raises nothing and leaves the
\* canvas, the log, the cursor, the point buffer and the stroke-open flag as
\* they were.
PuntoFueraSinEfecto ==
    [][\A c \in Coordenadas \ Pixeles :
          (dibujar_punto(c[1], c[2]) \/ borrar_punto(c[1], c[2])) =>
              /\ ultima'.ret # "excepcion"
              /\ UNCHANGED <<dibujo, historial_trazos, historial_index,
                             puntos_dibujo, dibujando>>]_vars

\* Two calls were made: a dibujar_punto that opened a stroke, then a
\* borrar_punto that added no point to it.
TestigoPuntoFuera ==
    /\ pasos = 2 /\ ultima.op = "borrar_punto" /\ ultima.ret = "None"
    /\ dibujando /\ Len(historial_trazos) = 1
    /\ historial_trazos[1].tipo = "trazo" /\ Len(historial_trazos[1].puntos) = 1

\* C34: reconstruction never fails on a producible log.  deshacer and
\* rehacer return without raising and leave the cursor inside the log.
ReconstruccionSinFallo ==
    ultima.op \in {"deshacer", "rehacer"} =>
        /\ ultima.ret # "excepcion"
        /\ -1 <= historial_index /\ historial_index < Len(historial_trazos)

\* C35: stroke continuation targets the open stroke.  While a stroke is
\* open, a dibujar_punto or borrar_punto call with a point on the canvas
\* appends that point to the last record of the log, whatever deshacer,
\* rehacer and limpiar_dibujo calls were made since the stroke was opened.
ContinuaElTrazoAbierto ==
    [][\A c \in Pixeles :
          (dibujando /\ (dibujar_punto(c[1], c[2]) \/ borrar_punto(c[1], c[2]))) =>
              /\ historial_trazos # <<>>
              /\ Len(historial_trazos') = Len(historial_trazos)
              /\ TienePuntos(historial_trazos[Len(historial_trazos)])
              /\ historial_trazos'[Len(historial_trazos)].puntos =
                     Append(historial_trazos[Len(historial_trazos)].puntos, c)]_vars

\* C38: records keep their kind across mode switches.  Under any sequence
\* of dispatcher frames and button selections, a record that receives a
\* point receives it from the call of its own kind: a 'trazo' record from
\* dibujar_punto, a 'borrado' record from borrar_punto.
RecibePunto(i) ==
    /\ i <= Len(historial_trazos')
    /\ TienePuntos(historial_trazos[i]) /\ TienePuntos(historial_trazos'[i])
    /\ historial_trazos'[i].tipo = historial_trazos[i].tipo
    /\ Len(historial_trazos'[i].puntos) = Len(historial_trazos[i].puntos) + 1
    /\ SubSeq(historial_trazos'[i].puntos, 1, Len(historial_trazos[i].puntos))
           = historial_trazos[i].puntos

RegistrosDeSuClase ==
    [][\A i \in 1 .. Len(historial_trazos) :
          RecibePunto(i) =>
              /\ historial_trazos[i].tipo = "trazo" => ultima'.op = "dibujar_punto"
              /\ historial_trazos[i].tipo = "borrado" => ultima'.op = "borrar_punto"]_vars

\* C33: exit terminates the session.  Once the Salir action or a quit key
\* has cleared ejecutando, no further frame is dispatched, and cerrar is
\* eventually invoked and runs to completion.
SalirTermina ==
    /\ [][pc = "cerrado" => pc' = "cerrado" /\ UNCHANGED <<cuadro, accion>>]_vars
    /\ (pc = "cerrado" /\ ~ejecutando) ~> (Terminado /\ ~Abortado)

\* C36: single consumer after an engine switch.  Outside a cambiar_motor
\* call, at most one _procesar_cola_habla thread is alive, after any number
\* of switches.
UnSoloConsumidor ==
    cambio.fase = "no" => Cardinality(Vivos) <= 1

\* C39: a successful switch really switches.  When cambiar_motor(m) has
\* returned True, the running backend is m and config['motor'] is m.
CambioEfectivo ==
    (ultima_voz.op = "cambiar_motor" /\ ultima_voz.ret = "True") =>
        motor_actual = cambio.nuevo /\ config_motor = cambio.nuevo

\* C40: close reaches Closed.  After VoiceEngine.cerrar has returned,
\* iniciado is False (so that the worker leaves its loop and hablar is
\* refused), even when a step of the teardown failed.
CerradoTrasCerrar ==
    ultima_voz.op = "cerrar" => ~iniciado

\* C37: the speed and pitch with which the worker synthesizes a message that
\* hablar_con_emocion queued are the ones set for it when it was queued, not
\* the ones restored afterwards.
ProsodiaDelMensaje ==
    \A i \in DOMAIN voces.mensajes :
        voces.mensajes[i].usada # <<>>
        => /\ voces.mensajes[i].usada[1].velocidad = voces.mensajes[i].pedida.velocidad
           /\ voces.mensajes[i].usada[1].tono = voces.mensajes[i].pedida.tono

====
